---- MODULE Spec2Model ----
(***************************************************************************)
(* Job orchestration of the flight tracker: the Postgres job store, the    *)
(* in-process sequential job chain (src/jobs/runner.js), the agent claim / *)
(* complete / reset-stuck endpoints (src/web/server.js) and the scheduler  *)
(* price pass (checkAndSendPriceUpdates).  Every awaited store or network  *)
(* call of a handler is one step, so that other actors interleave exactly  *)
(* where the event loop lets them.                                         *)
(***************************************************************************)
EXTENDS Integers, Sequences, FiniteSets, TLC

\* ------------------------------------------------------------ bounds
MaxJobs == 2          \* rows the jobs table may hold
NumFlights == 2       \* rows of the flights table
NumCallers == 2       \* concurrent clients of the agent endpoints
MaxPrice == 1         \* quotes are drawn from 1..MaxPrice
MaxPrices == 2        \* rows the prices table may hold

\* ------------------------------------------------------------ values
NullTime == 0 - 1     \* a NULL timestamp column
NoText == "NULL"      \* a NULL text column
NoJob == 0            \* "no row" for a job or flight reference
NotANumber == 0 - 1   \* a value that is no number (NaN, or text where a number is due)
QuoteError == "quote failed"
NotFound == "Flight not found"
AgentError == "Agent reported error"

FlightIds == 1..NumFlights
Callers == 1..NumCallers
PriceValues == 1..MaxPrice
NoResult == [kind |-> "null", price |-> 0, rows |-> <<>>]

\* a time zone: the offset from UTC in hours is `before` up to the instant `change`
\* (hours since day 0, 00:00 UTC) and before + shift from then on
UTC == [before |-> 0, change |-> 0, shift |-> 0]
NoArg == [who |-> "none"]
DepartDay == 5        \* departure date of the flights, as a day number

VARIABLES
    localAgentEnabled, \* LOCAL_AGENT_ENABLED: TRUE delegates execution to polling agents
    now,               \* the wall clock, in minutes
    jobs,              \* jobs table: row id = index (SERIAL), in created_at order
    flights,           \* flights table
    prices,            \* prices table, in insertion (checked_at) order
    jobQueue,          \* runner.js jobQueue: job ids in the order enqueue chained them
    run,               \* per job: the state of its in-process handler
    tx,                \* per caller: its claimNextJob transaction
    resp,              \* last response of the reset-stuck endpoint
    sched,             \* the scheduler's checkAndSendPriceUpdates call
    flex,              \* flex_prices table: at most one row per unique key
    contexts,          \* contexts table, in insertion order
    tz,                \* the time zone of the server process
    arg,               \* argument of the function under study
    out                \* its result

rest == <<flex, contexts, tz, arg, out>>
vars == <<localAgentEnabled, now, jobs, flights, prices, jobQueue, run, tx, resp, sched, rest>>

\* ------------------------------------------------------------ JSON texts
\* a text is a sequence of tokens; a value is null, a number or an object (its
\* members are left out). <<>> stands for a NULL or empty text column.
MaxJson == 2          \* longest stored JSON text, in tokens
JsonTokens == {"{", "}", "null", "0", "1"}
NoJson == <<>>
SyntaxError == "SyntaxError"

JSONstringify(value) == IF value = "object" THEN <<"{", "}">> ELSE <<value>>

\* JSON.parse: the value, or SyntaxError for a text that is no JSON value
JSONparse(text) ==
    IF text = <<"{", "}">> THEN "object"
    ELSE IF Len(text) = 1 /\ text[1] \in {"null", "0", "1"} THEN text[1]
    ELSE SyntaxError

\* try { v = JSON.parse(text) } catch { v = null }
ParseAlways(text) == JSONparse(text)
ParseOrNull(text) == IF JSONparse(text) = SyntaxError THEN "null" ELSE JSONparse(text)

Truthy(value) == value \in {"object", "1"}

\* ------------------------------------------------------------ job store
\* progress_total || 0: a missing total, or one that is no number, counts as 0
OrZero(total) == IF total = NotANumber THEN 0 ELSE total

\* the row is inserted with its progress already at the total
createJobComplete(js, type, flight_id, progress_total, payload_json) ==
    Append(js, [type |-> type, flight_id |-> flight_id, status |-> "queued",
                progress_current |-> OrZero(progress_total),
                progress_total |-> OrZero(progress_total),
                payload_json |-> payload_json,
                result |-> NoResult, error_text |-> NoText,
                started_at |-> NullTime, finished_at |-> NullTime])

\* INSERT INTO jobs (type, flight_id, status, progress_current, progress_total,
\* payload_json) VALUES ($1, $2, 'queued', 0, $3, $4): the other columns are NULL
createJob(js, type, flight_id, progress_total, payload_json) ==
    Append(js, [type |-> type, flight_id |-> flight_id, status |-> "queued",
                progress_current |-> 0, progress_total |-> OrZero(progress_total),
                payload_json |-> payload_json,
                result |-> NoResult, error_text |-> NoText,
                started_at |-> NullTime, finished_at |-> NullTime])

updateJobAllowed ==
    {"status", "progress_current", "progress_total", "payload_json", "result", "error_text",
     "started_at", "finished_at"}

\* whitelist-only partial update; an id with no row updates nothing
updateJob(js, jobId, fields) ==
    IF jobId \notin DOMAIN js \/ (DOMAIN fields \cap updateJobAllowed) = {}
    THEN js
    ELSE [js EXCEPT ![jobId] =
            [k \in DOMAIN @ |->
                IF k \in DOMAIN fields /\ k \in updateJobAllowed THEN fields[k] ELSE @[k]]]

getJob(js, jobId) == IF jobId \in DOMAIN js THEN jobId ELSE NoJob

\* ------------------------------------------------------------ flights, prices
getFlight(fs, flightId) == IF flightId \in DOMAIN fs THEN flightId ELSE NoJob

\* rows come back in id order
RECURSIVE SeqOfSet(_)
SeqOfSet(S) ==
    IF S = {} THEN <<>>
    ELSE LET m == CHOOSE x \in S : \A y \in S : x <= y
         IN <<m>> \o SeqOfSet(S \ {m})

getActiveFlights(fs) == SeqOfSet({f \in DOMAIN fs : fs[f].is_active})

updateFlightCheckStatus(fs, flightId, status, errorText) ==
    IF flightId \in DOMAIN fs
    THEN [fs EXCEPT ![flightId].last_check_status = status,
                    ![flightId].last_check_error = errorText,
                    ![flightId].last_checked_at = now]
    ELSE fs

\* by: the job (0: none) whose execution made the insert -- a history field
savePrice(ps, flight_id, price, source, by) ==
    Append(ps, [flight_id |-> flight_id, price |-> price, source |-> source,
                checked_at |-> now, by |-> by])

PricesOf(f) == {i \in DOMAIN prices : prices[i].flight_id = f}
PricesBy(j) == {i \in DOMAIN prices : prices[i].by = j}

\* ------------------------------------------------------------ row locks
\* rows locked FOR UPDATE by an open claim transaction
LockedRows == {tx[c].job : c \in {d \in Callers : tx[d].pc \in {"selected", "updated"}}}

\* ------------------------------------------------------------ the job chain
\* calls, okFlights: history of the handler's quote calls (how many; which flights
\* of a batch got a quote); threw: the closure rejected
IdleRun == [pc |-> "none", flight |-> NoJob, list |-> <<>>, current |-> 0,
            quote |-> 0, calls |-> 0, okFlights |-> {}, threw |-> FALSE,
            window |-> 0]

PositionInQueue(j) == CHOOSE i \in DOMAIN jobQueue : jobQueue[i] = j

\* fn() called at once instead of chained
PrevIgnored(j) == \E i \in DOMAIN jobQueue : jobQueue[i] = j

\* jobQueue.then(fn): fn starts once everything chained before it has settled
PrevSettled(j) ==
    /\ \E i \in DOMAIN jobQueue : jobQueue[i] = j
    /\ \A i \in 1..(PositionInQueue(j) - 1) : run[jobQueue[i]].pc = "done"

enqueue(j, window) ==
    /\ jobQueue' = Append(jobQueue, j)
    /\ run' = Append(run, [IdleRun EXCEPT !.pc = "pending", !.window = window])

DefaultWindow == 5
HandledTypes == {"check_now", "check_all", "flex_scan", "context_refresh"}

\* POST /api/flights/:id/check, /api/flights/check, ...: createJob, then hand the
\* job to the chain unless execution is delegated; every route passes an object
\* as payload
createAndRunJob(type, flightId, progressTotal, window) ==
    /\ Len(jobs) < MaxJobs
    /\ jobs' = createJob(jobs, type, flightId, progressTotal, JSONstringify("object"))
    /\ IF ~localAgentEnabled /\ type \in HandledTypes
       THEN enqueue(Len(jobs) + 1, window)
       ELSE /\ run' = Append(run, IdleRun)
            /\ UNCHANGED jobQueue
    /\ UNCHANGED <<localAgentEnabled, now, flights, prices, tx, resp, sched, rest>>

\* ------------------------------------------------------------ local handlers
Pc(j) == run[j].pc
Goto(j, pc) == run' = [run EXCEPT ![j].pc = pc]
IsLocal(j, type) == j \in DOMAIN jobs /\ jobs[j].type = type /\ j \in DOMAIN run

\* the chained closure starts: its first awaited call reads the flight(s)
runCheckNowJob(j) ==
    /\ IsLocal(j, "check_now") /\ Pc(j) = "pending" /\ PrevSettled(j)
    /\ run' = [run EXCEPT ![j].pc = "cn_run",
                          ![j].flight = getFlight(flights, jobs[j].flight_id)]
    /\ UNCHANGED <<localAgentEnabled, now, jobs, flights, prices, jobQueue, tx, resp, sched, rest>>

\* runner.js:69-76 (no flight: the job fails) or runner.js:28 (mark running)
CheckNowMarkRunning(j) ==
    /\ IsLocal(j, "check_now") /\ Pc(j) = "cn_run" /\ j \notin LockedRows
    /\ IF run[j].flight = NoJob
       THEN /\ jobs' = updateJob(jobs, j, [status |-> "error", error_text |-> NotFound,
                                           finished_at |-> now])
            /\ Goto(j, "done")
       ELSE /\ jobs' = updateJob(jobs, j, [status |-> "running", started_at |-> now])
            /\ Goto(j, "cn_fstatus")
    /\ UNCHANGED <<localAgentEnabled, now, flights, prices, jobQueue, tx, resp, sched, rest>>

CheckNowFlightRunning(j) ==
    /\ IsLocal(j, "check_now") /\ Pc(j) = "cn_fstatus"
    /\ flights' = updateFlightCheckStatus(flights, run[j].flight, "running", NoText)
    /\ Goto(j, "cn_quote")
    /\ UNCHANGED <<localAgentEnabled, now, jobs, prices, jobQueue, tx, resp, sched, rest>>

\* getPriceQuote settles: a quote with a price, or a throw
CheckNowQuote(j) ==
    /\ IsLocal(j, "check_now") /\ Pc(j) = "cn_quote"
    /\ \/ \E p \in PriceValues :
            run' = [run EXCEPT ![j].pc = "cn_save", ![j].quote = p,
                               ![j].calls = @ + 1]
       \/ run' = [run EXCEPT ![j].pc = "cn_ferr", ![j].calls = @ + 1]
    /\ UNCHANGED <<localAgentEnabled, now, jobs, flights, prices, jobQueue, tx, resp, sched, rest>>

\* the quote is dropped instead of saved
CheckNowSkipPrice(j) ==
    /\ IsLocal(j, "check_now") /\ Pc(j) = "cn_save"
    /\ Goto(j, "cn_fok")
    /\ UNCHANGED <<localAgentEnabled, now, jobs, flights, prices, jobQueue, tx, resp, sched, rest>>

CheckNowSavePrice(j) ==
    /\ IsLocal(j, "check_now") /\ Pc(j) = "cn_save"
    /\ prices' = savePrice(prices, run[j].flight, run[j].quote, "engine", j)
    /\ Goto(j, "cn_fok")
    /\ UNCHANGED <<localAgentEnabled, now, jobs, flights, jobQueue, tx, resp, sched, rest>>

CheckNowFlightOk(j) ==
    /\ IsLocal(j, "check_now") /\ Pc(j) = "cn_fok"
    /\ flights' = updateFlightCheckStatus(flights, run[j].flight, "ok", NoText)
    /\ Goto(j, "cn_success")
    /\ UNCHANGED <<localAgentEnabled, now, jobs, prices, jobQueue, tx, resp, sched, rest>>

CheckNowSuccess(j) ==
    /\ IsLocal(j, "check_now") /\ Pc(j) = "cn_success" /\ j \notin LockedRows
    /\ jobs' = updateJob(jobs, j, [status |-> "success", progress_current |-> 1,
                                   progress_total |-> 1,
                                   result |-> [NoResult EXCEPT !.kind = "quote", !.price = run[j].quote],
                                   finished_at |-> now])
    /\ Goto(j, "done")
    /\ UNCHANGED <<localAgentEnabled, now, flights, prices, jobQueue, tx, resp, sched, rest>>

CheckNowFlightError(j) ==
    /\ IsLocal(j, "check_now") /\ Pc(j) = "cn_ferr"
    /\ flights' = updateFlightCheckStatus(flights, run[j].flight, "error", QuoteError)
    /\ Goto(j, "cn_error")
    /\ UNCHANGED <<localAgentEnabled, now, jobs, prices, jobQueue, tx, resp, sched, rest>>

\* the failure leaves the handler instead of being written to the job
CheckNowRethrow(j) ==
    /\ IsLocal(j, "check_now") /\ Pc(j) = "cn_error"
    /\ Goto(j, "done")
    /\ UNCHANGED <<localAgentEnabled, now, jobs, flights, prices, jobQueue, tx, resp, sched, rest>>

CheckNowError(j) ==
    /\ IsLocal(j, "check_now") /\ Pc(j) = "cn_error" /\ j \notin LockedRows
    /\ jobs' = updateJob(jobs, j, [status |-> "error", error_text |-> QuoteError,
                                   finished_at |-> now])
    /\ Goto(j, "done")
    /\ UNCHANGED <<localAgentEnabled, now, flights, prices, jobQueue, tx, resp, sched, rest>>

runCheckForFlight(j) ==
    \/ CheckNowMarkRunning(j)
    \/ CheckNowFlightRunning(j)
    \/ CheckNowQuote(j)
    \/ CheckNowSavePrice(j)
    \/ CheckNowFlightOk(j)
    \/ CheckNowSuccess(j)
    \/ CheckNowFlightError(j)
    \/ CheckNowError(j)

\* ---- check_all
runCheckAllJob(j) ==
    /\ IsLocal(j, "check_all") /\ Pc(j) = "pending" /\ PrevSettled(j)
    /\ run' = [run EXCEPT ![j].pc = "ca_run", ![j].list = getActiveFlights(flights)]
    /\ UNCHANGED <<localAgentEnabled, now, jobs, flights, prices, jobQueue, tx, resp, sched, rest>>

CheckAllMarkRunning(j) ==
    /\ IsLocal(j, "check_all") /\ Pc(j) = "ca_run" /\ j \notin LockedRows
    /\ jobs' = updateJob(jobs, j, [status |-> "running", started_at |-> now,
                                   progress_total |-> Len(run[j].list),
                                   progress_current |-> 0])
    /\ Goto(j, IF Len(run[j].list) = 0 THEN "ca_success" ELSE "ca_quote")
    /\ UNCHANGED <<localAgentEnabled, now, flights, prices, jobQueue, tx, resp, sched, rest>>

CheckAllFlight(j) == run[j].list[run[j].current + 1]

CheckAllQuote(j) ==
    /\ IsLocal(j, "check_all") /\ Pc(j) = "ca_quote"
    /\ \/ \E p \in PriceValues :
            run' = [run EXCEPT ![j].pc = "ca_save", ![j].quote = p,
                               ![j].calls = @ + 1,
                               ![j].okFlights = @ \cup {CheckAllFlight(j)}]
       \/ run' = [run EXCEPT ![j].pc = "ca_ferr", ![j].calls = @ + 1]
    /\ UNCHANGED <<localAgentEnabled, now, jobs, flights, prices, jobQueue, tx, resp, sched, rest>>

CheckAllSavePrice(j) ==
    /\ IsLocal(j, "check_all") /\ Pc(j) = "ca_save"
    /\ prices' = savePrice(prices, CheckAllFlight(j), run[j].quote, "engine", j)
    /\ Goto(j, "ca_fok")
    /\ UNCHANGED <<localAgentEnabled, now, jobs, flights, jobQueue, tx, resp, sched, rest>>

CheckAllFlightOk(j) ==
    /\ IsLocal(j, "check_all") /\ Pc(j) = "ca_fok"
    /\ flights' = updateFlightCheckStatus(flights, CheckAllFlight(j), "ok", NoText)
    /\ Goto(j, "ca_progress")
    /\ UNCHANGED <<localAgentEnabled, now, jobs, prices, jobQueue, tx, resp, sched, rest>>

\* a failing flight ends the batch
CheckAllFlightAbort(j) ==
    /\ IsLocal(j, "check_all") /\ Pc(j) = "ca_ferr"
    /\ flights' = updateFlightCheckStatus(flights, CheckAllFlight(j), "error", QuoteError)
    /\ Goto(j, "ca_success")
    /\ UNCHANGED <<localAgentEnabled, now, jobs, prices, jobQueue, tx, resp, sched, rest>>

CheckAllFlightError(j) ==
    /\ IsLocal(j, "check_all") /\ Pc(j) = "ca_ferr"
    /\ flights' = updateFlightCheckStatus(flights, CheckAllFlight(j), "error", QuoteError)
    /\ Goto(j, "ca_progress")
    /\ UNCHANGED <<localAgentEnabled, now, jobs, prices, jobQueue, tx, resp, sched, rest>>

\* current += 1; updateJob(jobId, { progress_current: current })
CheckAllProgress(j) ==
    /\ IsLocal(j, "check_all") /\ Pc(j) = "ca_progress" /\ j \notin LockedRows
    /\ jobs' = updateJob(jobs, j, [progress_current |-> run[j].current + 1])
    /\ run' = [run EXCEPT ![j].current = @ + 1,
                          ![j].pc = IF run[j].current + 1 < Len(run[j].list)
                                    THEN "ca_quote" ELSE "ca_success"]
    /\ UNCHANGED <<localAgentEnabled, now, flights, prices, jobQueue, tx, resp, sched, rest>>

CheckAllSuccess(j) ==
    /\ IsLocal(j, "check_all") /\ Pc(j) = "ca_success" /\ j \notin LockedRows
    /\ jobs' = updateJob(jobs, j, [status |-> "success", finished_at |-> now])
    /\ Goto(j, "done")
    /\ UNCHANGED <<localAgentEnabled, now, flights, prices, jobQueue, tx, resp, sched, rest>>

CheckAllBody(j) ==
    \/ CheckAllMarkRunning(j)
    \/ CheckAllQuote(j)
    \/ CheckAllSavePrice(j)
    \/ CheckAllFlightOk(j)
    \/ CheckAllFlightError(j)
    \/ CheckAllProgress(j)
    \/ CheckAllSuccess(j)

\* getActiveFlights rejects: the await is outside every try, so the closure rejects,
\* the chain's .catch logs the error and the next handler may start
CheckAllEnumerateThrows(j) ==
    /\ IsLocal(j, "check_all") /\ Pc(j) = "pending" /\ PrevSettled(j)
    /\ run' = [run EXCEPT ![j].pc = "done", ![j].threw = TRUE]
    /\ UNCHANGED <<localAgentEnabled, now, jobs, flights, prices, jobQueue, tx, resp, sched, rest>>

\* ------------------------------------------------------------ dates
\* a calendar date 'YYYY-MM-DD' is its day number; an instant is in hours since
\* day 0, 00:00 UTC
NullDate == 0 - 1     \* return_date null
EmptyDate == 0 - 2    \* return_date ''
HoursPerDay == 24

\* new Date('YYYY-MM-DD'): midnight UTC of that day
ParseDate(day) == day * HoursPerDay
\* date.toISOString().slice(0, 10): the UTC calendar day of the instant
IsoDate(t) == t \div HoursPerDay

Offset(z, t) == z.before + (IF t >= z.change THEN z.shift ELSE 0)

\* the instant whose local wall-clock reading in zone z is L; a reading the zone
\* skips or repeats is read with the offset in force before the change
LocalToUtc(z, L) ==
    LET t1 == L - z.before
        t2 == L - (z.before + z.shift)
    IN IF t1 < z.change THEN t1 ELSE IF t2 >= z.change THEN t2 ELSE t1

\* d.setDate(d.getDate() + delta): the local calendar day moves, the local time of
\* day stays
setDate(z, t, delta) == LocalToUtc(z, t + Offset(z, t) + delta * HoursPerDay)

\* Math.round((returnDate - departDate) / 86400000), both midnights UTC
tripLengthDays(flight) ==
    IF flight.return_date = NullDate THEN NullDate
    ELSE flight.return_date - flight.departure_date

\* runner.js:141-152: the dates probed at day offset delta
shiftedDepart(z, flight, delta) == setDate(z, ParseDate(flight.departure_date), delta)
shiftedFlight(z, flight, delta) ==
    [departure_date |-> IsoDate(shiftedDepart(z, flight, delta)),
     return_date |-> IF flight.return_date = NullDate THEN NullDate
                     ELSE IsoDate(shiftedDepart(z, flight, delta)
                                  + tripLengthDays(flight) * HoursPerDay)]

\* ------------------------------------------------------------ flex_prices
NullPrice == 0        \* price null

\* the value as given
FlexReturnRaw(d) == d
\* return_date || ''
FlexReturnKey(d) == IF d = NullDate THEN EmptyDate ELSE d

\* UNIQUE(flight_id, departure_date, return_date, cabin_class, passengers): two rows
\* conflict when all five columns are equal, and a NULL equals nothing
FlexConflict(a, b) ==
    /\ a.flight_id = b.flight_id
    /\ a.departure_date = b.departure_date
    /\ a.return_date # NullDate /\ a.return_date = b.return_date
    /\ a.cabin_class = b.cabin_class
    /\ a.passengers = b.passengers

\* INSERT ... ON CONFLICT (key) DO UPDATE SET price, currency, airline, source,
\* checked_at = CURRENT_TIMESTAMP.  by, delta: the job and day offset of the write --
\* history fields
upsertFlexPrice(fx, row) ==
    LET r == [row EXCEPT !.return_date = FlexReturnKey(@)]
        old == {x \in fx : FlexConflict(x, r)}
    IN IF old = {}
       THEN fx \cup {[r EXCEPT !.checked_at = now]}
       ELSE (fx \ old) \cup
            {[x EXCEPT !.price = r.price, !.airline = r.airline, !.source = r.source,
                       !.checked_at = now, !.by = r.by, !.delta = r.delta] : x \in old}

FlexRow(flight_id, flight, dates, price, airline, source, by, delta) ==
    [flight_id |-> flight_id, departure_date |-> dates.departure_date,
     return_date |-> dates.return_date, cabin_class |-> flight.cabin_class,
     passengers |-> flight.passengers, price |-> price, airline |-> airline,
     source |-> source, checked_at |-> NullTime, by |-> by, delta |-> delta]

\* ------------------------------------------------------------ local flex_scan
runFlexScanJob(j) ==
    /\ IsLocal(j, "flex_scan") /\ Pc(j) = "pending" /\ PrevSettled(j)
    /\ run' = [run EXCEPT ![j].pc = "fx_run",
                          ![j].flight = getFlight(flights, jobs[j].flight_id)]
    /\ UNCHANGED <<localAgentEnabled, now, jobs, flights, prices, jobQueue, tx, resp, sched, rest>>

FlexTotal(j) == run[j].window * 2 + 1
FlexDelta(j) == run[j].current - run[j].window

FlexMarkRunning(j) ==
    /\ IsLocal(j, "flex_scan") /\ Pc(j) = "fx_run" /\ j \notin LockedRows
    /\ IF run[j].flight = NoJob
       THEN /\ jobs' = updateJob(jobs, j, [status |-> "error", error_text |-> NotFound,
                                           finished_at |-> now])
            /\ Goto(j, "done")
       ELSE /\ jobs' = updateJob(jobs, j, [status |-> "running", started_at |-> now,
                                           progress_total |-> FlexTotal(j),
                                           progress_current |-> 0])
            /\ Goto(j, IF FlexTotal(j) > 0 THEN "fx_quote" ELSE "fx_success")
    /\ UNCHANGED <<localAgentEnabled, now, flights, prices, jobQueue, tx, resp, sched, rest>>

\* getPriceQuote(shiftedFlight) settles: a quote with a price, or a throw
FlexQuote(j) ==
    /\ IsLocal(j, "flex_scan") /\ Pc(j) = "fx_quote"
    /\ \/ \E p \in PriceValues :
            run' = [run EXCEPT ![j].pc = "fx_save", ![j].quote = p, ![j].calls = @ + 1]
       \/ run' = [run EXCEPT ![j].pc = "fx_err", ![j].quote = 0, ![j].calls = @ + 1]
    /\ UNCHANGED <<localAgentEnabled, now, jobs, flights, prices, jobQueue, tx, resp, sched, rest>>

FlexProbe(j) == shiftedFlight(tz, flights[run[j].flight], FlexDelta(j))

FlexUpsert(j) ==
    /\ IsLocal(j, "flex_scan") /\ Pc(j) = "fx_save"
    /\ flex' = upsertFlexPrice(flex, FlexRow(run[j].flight, flights[run[j].flight],
                                             FlexProbe(j), run[j].quote, "XX", "engine",
                                             j, FlexDelta(j)))
    /\ Goto(j, "fx_progress")
    /\ UNCHANGED <<localAgentEnabled, now, jobs, flights, prices, jobQueue, tx, resp, sched,
                   contexts, tz, arg, out>>

\* the probe is abandoned with nothing written
FlexUpsertNothing(j) ==
    /\ IsLocal(j, "flex_scan") /\ Pc(j) = "fx_err"
    /\ Goto(j, "fx_progress")
    /\ UNCHANGED <<localAgentEnabled, now, jobs, flights, prices, jobQueue, tx, resp, sched, rest>>

\* catch: the probe is recorded as checked and failed
FlexUpsertError(j) ==
    /\ IsLocal(j, "flex_scan") /\ Pc(j) = "fx_err"
    /\ flex' = upsertFlexPrice(flex, FlexRow(run[j].flight, flights[run[j].flight],
                                             FlexProbe(j), NullPrice, NoText, "error",
                                             j, FlexDelta(j)))
    /\ Goto(j, "fx_progress")
    /\ UNCHANGED <<localAgentEnabled, now, jobs, flights, prices, jobQueue, tx, resp, sched,
                   contexts, tz, arg, out>>

FlexProgress(j) ==
    /\ IsLocal(j, "flex_scan") /\ Pc(j) = "fx_progress" /\ j \notin LockedRows
    /\ jobs' = updateJob(jobs, j, [progress_current |-> run[j].current + 1])
    /\ run' = [run EXCEPT ![j].current = @ + 1,
                          ![j].pc = IF run[j].current + 1 < FlexTotal(j)
                                    THEN "fx_quote" ELSE "fx_success"]
    /\ UNCHANGED <<localAgentEnabled, now, flights, prices, jobQueue, tx, resp, sched, rest>>

FlexSuccess(j) ==
    /\ IsLocal(j, "flex_scan") /\ Pc(j) = "fx_success" /\ j \notin LockedRows
    /\ jobs' = updateJob(jobs, j, [status |-> "success",
                                   result |-> [NoResult EXCEPT !.kind = "flex"],
                                   finished_at |-> now])
    /\ Goto(j, "done")
    /\ UNCHANGED <<localAgentEnabled, now, flights, prices, jobQueue, tx, resp, sched, rest>>

FlexScanBody(j) ==
    \/ FlexMarkRunning(j)
    \/ FlexQuote(j)
    \/ FlexUpsert(j)
    \/ FlexUpsertError(j)
    \/ FlexProgress(j)
    \/ FlexSuccess(j)

\* ------------------------------------------------------------ contexts
\* fetchTravelContext: expires_at = addHours(new Date(), 6)
ContextHours == 6

\* INSERT INTO contexts (flight_id, context_json, fetched_at, expires_at)
\* VALUES ($1, $2, CURRENT_TIMESTAMP, $3): always a new row; $3 is the expires_at
\* of the context just fetched
upsertContext(cs, flight_id, context) ==
    Append(cs, [flight_id |-> flight_id, context |-> context,
                context_json |-> JSONstringify("object"), fetched_at |-> now,
                expires_at |-> now + ContextHours])

\* ORDER BY fetched_at ASC
EarliestFetched(cs, S) == {i \in S : \A k \in S : cs[i].fetched_at <= cs[k].fetched_at}
\* ORDER BY fetched_at DESC
LatestFetched(cs, S) == {i \in S : \A k \in S : cs[i].fetched_at >= cs[k].fetched_at}

\* SELECT * FROM contexts WHERE flight_id = $1 AND fetched_at >= NOW() - maxAge
\* ORDER BY fetched_at DESC LIMIT 1: the rows the query may answer with ({}: none)
getContext(cs, flight_id, maxAge) ==
    LatestFetched(cs, {i \in DOMAIN cs : /\ cs[i].flight_id = flight_id
                                         /\ cs[i].fetched_at >= now - maxAge})

\* ------------------------------------------------------------ local context_refresh
runContextRefreshJob(j) ==
    /\ IsLocal(j, "context_refresh") /\ Pc(j) = "pending" /\ PrevSettled(j)
    /\ run' = [run EXCEPT ![j].pc = "cx_run",
                          ![j].flight = getFlight(flights, jobs[j].flight_id)]
    /\ UNCHANGED <<localAgentEnabled, now, jobs, flights, prices, jobQueue, tx, resp, sched, rest>>

ContextMarkRunning(j) ==
    /\ IsLocal(j, "context_refresh") /\ Pc(j) = "cx_run" /\ j \notin LockedRows
    /\ IF run[j].flight = NoJob
       THEN /\ jobs' = updateJob(jobs, j, [status |-> "error", error_text |-> NotFound,
                                           finished_at |-> now])
            /\ Goto(j, "done")
       ELSE /\ jobs' = updateJob(jobs, j, [status |-> "running", started_at |-> now,
                                           progress_total |-> 1, progress_current |-> 0])
            /\ Goto(j, "cx_fetch")
    /\ UNCHANGED <<localAgentEnabled, now, flights, prices, jobQueue, tx, resp, sched, rest>>

\* fetchTravelContext settles, with the headlines or with a throw; the request to
\* the news service has taken one unit of clock time
ContextFetch(j) ==
    /\ IsLocal(j, "context_refresh") /\ Pc(j) = "cx_fetch"
    /\ now' = now + 1
    /\ \/ run' = [run EXCEPT ![j].pc = "cx_save", ![j].calls = @ + 1]
       \/ run' = [run EXCEPT ![j].pc = "cx_error", ![j].calls = @ + 1]
    /\ UNCHANGED <<localAgentEnabled, jobs, flights, prices, jobQueue, tx, resp, sched, rest>>

ContextUpsert(j) ==
    /\ IsLocal(j, "context_refresh") /\ Pc(j) = "cx_save"
    /\ contexts' = upsertContext(contexts, run[j].flight, j)
    /\ Goto(j, "cx_success")
    /\ UNCHANGED <<localAgentEnabled, now, jobs, flights, prices, jobQueue, tx, resp, sched,
                   flex, tz, arg, out>>

ContextSuccess(j) ==
    /\ IsLocal(j, "context_refresh") /\ Pc(j) = "cx_success" /\ j \notin LockedRows
    /\ jobs' = updateJob(jobs, j, [status |-> "success", progress_current |-> 1,
                                   result |-> [NoResult EXCEPT !.kind = "context"],
                                   finished_at |-> now])
    /\ Goto(j, "done")
    /\ UNCHANGED <<localAgentEnabled, now, flights, prices, jobQueue, tx, resp, sched, rest>>

ContextError(j) ==
    /\ IsLocal(j, "context_refresh") /\ Pc(j) = "cx_error" /\ j \notin LockedRows
    /\ jobs' = updateJob(jobs, j, [status |-> "error", error_text |-> QuoteError,
                                   finished_at |-> now])
    /\ Goto(j, "done")
    /\ UNCHANGED <<localAgentEnabled, now, flights, prices, jobQueue, tx, resp, sched, rest>>

ContextRefreshBody(j) ==
    \/ ContextMarkRunning(j)
    \/ ContextFetch(j)
    \/ ContextUpsert(j)
    \/ ContextSuccess(j)
    \/ ContextError(j)

\* ------------------------------------------------------------ price reads
NoRead == 0 - 1       \* the reader was given no such value

\* JavaScript a || b on numbers: 0 and null/undefined give b
OrElse(a, b) == IF a = 0 \/ a = NoRead THEN b ELSE a

RowsOfFlight(ps, f) == {i \in DOMAIN ps : ps[i].flight_id = f}
\* ORDER BY checked_at DESC: the row at position n (1 = newest; 0 when there is none)
NthLatest(ps, f, n) ==
    LET at == {i \in RowsOfFlight(ps, f) :
                  Cardinality({k \in RowsOfFlight(ps, f) :
                                  ps[k].checked_at > ps[i].checked_at}) = n - 1}
    IN IF at = {} THEN 0 ELSE CHOOSE i \in at : TRUE
PriceAt(ps, i) == IF i = 0 THEN NoRead ELSE ps[i].price
\* SELECT MIN(price) FROM prices WHERE flight_id = f
MinPrice(ps, f) ==
    IF RowsOfFlight(ps, f) = {} THEN NoRead
    ELSE LET i == CHOOSE i \in RowsOfFlight(ps, f) :
                      \A k \in RowsOfFlight(ps, f) : ps[i].price <= ps[k].price
         IN ps[i].price

\* SELECT * FROM prices WHERE flight_id = $1 ORDER BY checked_at DESC LIMIT 1
getLatestPrice(ps, f) ==
    [who |-> "getLatestPrice", flight |-> f,
     current |-> PriceAt(ps, NthLatest(ps, f, 1)), lowest |-> NoRead]
\* SELECT * FROM prices WHERE flight_id = $1 ORDER BY price ASC LIMIT 1
getLowestPrice(ps, f) ==
    [who |-> "getLowestPrice", flight |-> f, current |-> NoRead, lowest |-> MinPrice(ps, f)]
\* the row of flight f in the flight list: latest_price, lowest_price
getAllFlightsWithLatestPrice(ps, f) ==
    [who |-> "getAllFlightsWithLatestPrice", flight |-> f,
     current |-> PriceAt(ps, NthLatest(ps, f, 1)), lowest |-> MinPrice(ps, f)]
\* POST /api/flights/:id/notify: currentPrice = prices[0]?.price || 0,
\* lowestPrice = Math.min(...prices.map(p => p.price)) || currentPrice
NotifyPrices(ps, f) ==
    LET currentPrice == OrElse(PriceAt(ps, NthLatest(ps, f, 1)), 0)
    IN [who |-> "notify", flight |-> f, current |-> currentPrice,
        lowest |-> OrElse(MinPrice(ps, f), currentPrice)]
\* the scheduler's e-mail: no mail when !current_price;
\* lowestPrice = lowest_price || current_price
SchedulerEmailPrices(ps, f) ==
    LET current_price == PriceAt(ps, NthLatest(ps, f, 1))
    IN IF OrElse(current_price, 0) = 0
       THEN [who |-> "scheduler", flight |-> f, current |-> NoRead, lowest |-> NoRead]
       ELSE [who |-> "scheduler", flight |-> f, current |-> current_price,
             lowest |-> OrElse(MinPrice(ps, f), current_price)]

\* a collaborator reads the prices of a flight
Read(result) ==
    /\ out = NoArg
    /\ out' = result
    /\ UNCHANGED <<localAgentEnabled, now, jobs, flights, prices, jobQueue, run, tx, resp, sched,
                   flex, contexts, tz, arg>>
ReadLatestPrice == \E f \in FlightIds : Read(getLatestPrice(prices, f))
ReadLowestPrice == \E f \in FlightIds : Read(getLowestPrice(prices, f))
ReadFlightList == \E f \in FlightIds : Read(getAllFlightsWithLatestPrice(prices, f))
ReadNotify == \E f \in FlightIds : Read(NotifyPrices(prices, f))
ReadSchedulerEmail == \E f \in FlightIds : Read(SchedulerEmailPrices(prices, f))

\* ------------------------------------------------------------ claimNextJob
IdleTx == [pc |-> "idle", job |-> NoJob, at |-> NullTime, body |-> NoResult,
           ok |-> FALSE, errText |-> NoText, progress |-> 0 - 1, row |-> 0]

\* SELECT ... WHERE status = 'queued' ... FOR UPDATE SKIP LOCKED, as a plain SELECT
\* would answer it
QueuedRows(js, locked) == {j \in DOMAIN js : js[j].status = "queued"}

\* SELECT ... WHERE status = 'queued' ... FOR UPDATE SKIP LOCKED: the candidates
Claimable(js, locked) == {j \in DOMAIN js : js[j].status = "queued" /\ j \notin locked}

\* ORDER BY created_at DESC LIMIT 1
Newest(S) == CHOOSE j \in S : \A k \in S : j >= k

\* ORDER BY created_at ASC LIMIT 1
Oldest(S) == CHOOSE j \in S : \A k \in S : j <= k

\* BEGIN; SELECT ... FOR UPDATE SKIP LOCKED (no row: ROLLBACK, return null)
ClaimSelect(c) ==
    /\ tx[c].pc = "idle"
    /\ LET cand == Claimable(jobs, LockedRows)
       IN IF cand = {}
          THEN tx' = [tx EXCEPT ![c] = [IdleTx EXCEPT !.pc = "returned"]]
          ELSE tx' = [tx EXCEPT ![c] = [IdleTx EXCEPT !.pc = "selected",
                                                      !.job = Oldest(cand), !.at = now]]
    /\ UNCHANGED <<localAgentEnabled, now, jobs, flights, prices, jobQueue, run, resp, sched, rest>>

\* UPDATE jobs SET status = 'running', started_at = $1: not visible before COMMIT
ClaimUpdate(c) ==
    /\ tx[c].pc = "selected"
    /\ tx' = [tx EXCEPT ![c].pc = "updated"]
    /\ UNCHANGED <<localAgentEnabled, now, jobs, flights, prices, jobQueue, run, resp, sched, rest>>

\* COMMIT; return { ...job, status: 'running', started_at: now }
ClaimCommit(c) ==
    /\ tx[c].pc = "updated"
    /\ jobs' = updateJob(jobs, tx[c].job, [status |-> "running", started_at |-> tx[c].at])
    /\ tx' = [tx EXCEPT ![c].pc = "returned"]
    /\ UNCHANGED <<localAgentEnabled, now, flights, prices, jobQueue, run, resp, sched, rest>>

claimNextJob(c) == ClaimSelect(c) \/ ClaimUpdate(c) \/ ClaimCommit(c)

\* the claimant has its answer (the job, or 204) and may call again
AgentIdle(c) ==
    /\ tx[c].pc = "returned"
    /\ tx' = [tx EXCEPT ![c] = IdleTx]
    /\ UNCHANGED <<localAgentEnabled, now, jobs, flights, prices, jobQueue, run, resp, sched, rest>>

\* the job the caller c was handed and has not given back
Holds(c, j) == tx[c].pc = "returned" /\ tx[c].job = j /\ j # NoJob

\* ------------------------------------------------------------ complete
MaxRows == 1          \* rows of a reported check_all result
MaxContexts == 2      \* rows the contexts table may hold after completions

\* what a worker may report as `result`
QuoteResults == {[NoResult EXCEPT !.kind = "quote", !.price = p] : p \in PriceValues}
NoPriceResult == [NoResult EXCEPT !.kind = "noprice"]
RowInputs == [flight_id : 0..(NumFlights + 1), price : 0..MaxPrice]
RECURSIVE SeqsUpTo(_, _)
SeqsUpTo(S, n) ==
    IF n = 0 THEN {<<>>}
    ELSE LET shorter == SeqsUpTo(S, n - 1)
         IN shorter \cup {Append(q, x) : q \in {r \in shorter : Len(r) = n - 1}, x \in S}
BatchResults == {[NoResult EXCEPT !.kind = "batch", !.rows = r] : r \in SeqsUpTo(RowInputs, MaxRows)}
ResultInputs == {NoResult, NoPriceResult} \cup QuoteResults \cup BatchResults

\* for (const row of result.results) { if (!row?.flight_id || !row.price) continue; ...
\* the next row at or after i that is not skipped (0: none)
NextRow(rows, i) ==
    LET ok == {k \in i..Len(rows) : rows[k].flight_id # 0 /\ rows[k].price # 0}
    IN IF ok = {} THEN 0 ELSE CHOOSE k \in ok : \A m \in ok : k <= m

\* server.js:319-379: the first awaited call after the progress update
\* if (finalStatus === 'error') { ...; return }
SideEffectsAlways(ok) == TRUE
SideEffectsAllowed(ok) == ok

AfterHeader(type, ok, body) ==
    IF ~SideEffectsAllowed(ok) THEN "c_error"
    ELSE IF type = "check_now" /\ body.kind # "null" THEN "c_save"
    ELSE IF type = "check_all" /\ body.kind = "batch" /\ NextRow(body.rows, 1) # 0
         THEN "c_rowsave"
    ELSE IF type = "flex_scan" /\ body.kind \in {"batch", "flex"} /\ body.rows # <<>>
         THEN "c_flex"
    ELSE IF type = "context_refresh" /\ body.kind = "context" THEN "c_context"
    ELSE "c_success"

\* the first row the side-effect loop of the job's type visits (0: none)
FirstRow(body) ==
    IF body.kind = "batch" THEN NextRow(body.rows, 1)
    ELSE IF body.kind = "flex" /\ body.rows # <<>> THEN 1
    ELSE 0

\* POST /api/agent/jobs/:id/complete arrives: getJob (404 when there is no row)
CompleteBegin(c, id, ok, body, errText, progress) ==
    /\ tx[c].pc \in {"idle", "returned"}
    /\ IF getJob(jobs, id) = NoJob
       THEN tx' = [tx EXCEPT ![c] = IdleTx]
       ELSE tx' = [tx EXCEPT ![c] =
                    [IdleTx EXCEPT !.pc = IF progress >= 0 THEN "c_progress"
                                          ELSE AfterHeader(jobs[id].type, ok, body),
                                   !.job = id, !.ok = ok, !.body = body,
                                   !.errText = errText, !.progress = progress,
                                   !.row = FirstRow(body)]]
    /\ UNCHANGED <<localAgentEnabled, now, jobs, flights, prices, jobQueue, run, resp, sched, rest>>

CompleteProgress(c) ==
    /\ tx[c].pc = "c_progress" /\ tx[c].job \notin LockedRows
    /\ jobs' = updateJob(jobs, tx[c].job, [progress_current |-> tx[c].progress])
    /\ tx' = [tx EXCEPT ![c].pc = AfterHeader(jobs[tx[c].job].type, tx[c].ok, tx[c].body)]
    /\ UNCHANGED <<localAgentEnabled, now, flights, prices, jobQueue, run, resp, sched, rest>>

CompleteError(c) ==
    /\ tx[c].pc = "c_error" /\ tx[c].job \notin LockedRows
    /\ jobs' = updateJob(jobs, tx[c].job,
                 [status |-> "error",
                  error_text |-> IF tx[c].errText = NoText THEN AgentError ELSE tx[c].errText,
                  finished_at |-> now])
    /\ tx' = [tx EXCEPT ![c] = IdleTx]
    /\ UNCHANGED <<localAgentEnabled, now, flights, prices, jobQueue, run, resp, sched, rest>>

\* price REAL NOT NULL: a value that is no number is rejected by the INSERT
PriceColumnTakesAll(p) == TRUE
PriceColumnTakes(p) == p # NotANumber

\* check_now: savePrice(result.price); a missing price violates NOT NULL, the
\* throw is caught (500) and nothing more is written
CompleteSavePrice(c) ==
    /\ tx[c].pc = "c_save"
    /\ IF tx[c].body.kind = "quote" /\ PriceColumnTakes(tx[c].body.price)
       THEN /\ Len(prices) < MaxPrices
            /\ prices' = savePrice(prices, jobs[tx[c].job].flight_id, tx[c].body.price,
                                   "agent", tx[c].job)
            /\ tx' = [tx EXCEPT ![c].pc = "c_fok"]
       ELSE /\ tx' = [tx EXCEPT ![c].pc = "c_500"]
            /\ UNCHANGED prices
    /\ UNCHANGED <<localAgentEnabled, now, jobs, flights, jobQueue, run, resp, sched, rest>>

CompleteFlightOk(c) ==
    /\ tx[c].pc = "c_fok"
    /\ flights' = updateFlightCheckStatus(flights, jobs[tx[c].job].flight_id, "ok", NoText)
    /\ tx' = [tx EXCEPT ![c].pc = "c_success"]
    /\ UNCHANGED <<localAgentEnabled, now, jobs, prices, jobQueue, run, resp, sched, rest>>

CompleteRow(c) == tx[c].body.rows[tx[c].row]

\* check_all: savePrice(row); a flight_id with no flights row violates the foreign key
CompleteRowSave(c) ==
    /\ tx[c].pc = "c_rowsave"
    /\ IF CompleteRow(c).flight_id \in DOMAIN flights /\ PriceColumnTakes(CompleteRow(c).price)
       THEN /\ Len(prices) < MaxPrices
            /\ prices' = savePrice(prices, CompleteRow(c).flight_id, CompleteRow(c).price,
                                   "agent", tx[c].job)
            /\ tx' = [tx EXCEPT ![c].pc = "c_rowok"]
       ELSE /\ tx' = [tx EXCEPT ![c].pc = "c_500"]
            /\ UNCHANGED prices
    /\ UNCHANGED <<localAgentEnabled, now, jobs, flights, jobQueue, run, resp, sched, rest>>

CompleteRowOk(c) ==
    /\ tx[c].pc = "c_rowok"
    /\ flights' = updateFlightCheckStatus(flights, CompleteRow(c).flight_id, "ok", NoText)
    /\ LET n == NextRow(tx[c].body.rows, tx[c].row + 1)
       IN tx' = [tx EXCEPT ![c].row = n,
                           ![c].pc = IF n = 0 THEN "c_success" ELSE "c_rowsave"]
    /\ UNCHANGED <<localAgentEnabled, now, jobs, prices, jobQueue, run, resp, sched, rest>>

\* flex_scan: upsertFlexPrice(row) for every row, in order; a row without a
\* departure_date violates NOT NULL
CompleteFlexUpsert(c) ==
    /\ tx[c].pc = "c_flex"
    /\ LET row == CompleteRow(c)
           n == IF tx[c].row < Len(tx[c].body.rows) THEN tx[c].row + 1 ELSE 0
       IN IF tx[c].body.kind = "flex" /\ row.departure_date # NullDate
          THEN /\ flex' = upsertFlexPrice(flex,
                              FlexRow(jobs[tx[c].job].flight_id,
                                      [cabin_class |-> "economy", passengers |-> 1],
                                      row, row.price, NoText,
                                      IF row.price = NullPrice THEN "error" ELSE "agent",
                                      tx[c].job, 0))
               /\ tx' = [tx EXCEPT ![c].row = n,
                                   ![c].pc = IF n = 0 THEN "c_success" ELSE "c_flex"]
          ELSE /\ tx' = [tx EXCEPT ![c].pc = "c_500"]
               /\ UNCHANGED flex
    /\ UNCHANGED <<localAgentEnabled, now, jobs, flights, prices, jobQueue, run, resp, sched,
                   contexts, tz, arg, out>>

\* context_refresh: upsertContext(result.context)
CompleteContext(c) ==
    /\ tx[c].pc = "c_context"
    /\ Len(contexts) < MaxContexts
    /\ contexts' = upsertContext(contexts, jobs[tx[c].job].flight_id, tx[c].job)
    /\ tx' = [tx EXCEPT ![c].pc = "c_success"]
    /\ UNCHANGED <<localAgentEnabled, now, jobs, flights, prices, jobQueue, run, resp, sched,
                   flex, tz, arg, out>>

\* catch (error): res.status(500); the job row is not written
CompleteAnswer500(c) ==
    /\ tx[c].pc = "c_500"
    /\ tx' = [tx EXCEPT ![c] = IdleTx]
    /\ UNCHANGED <<localAgentEnabled, now, jobs, flights, prices, jobQueue, run, resp, sched, rest>>

CompleteSuccess(c) ==
    /\ tx[c].pc = "c_success" /\ tx[c].job \notin LockedRows
    /\ jobs' = updateJob(jobs, tx[c].job,
                 [status |-> "success", result |-> tx[c].body, finished_at |-> now])
    /\ tx' = [tx EXCEPT ![c] = IdleTx]
    /\ UNCHANGED <<localAgentEnabled, now, flights, prices, jobQueue, run, resp, sched, rest>>

\* ------------------------------------------------------------ reset-stuck
StuckMinutes == 5
Stuck(js, j) ==
    js[j].status = "running" /\ js[j].started_at # NullTime
    /\ js[j].started_at < now - StuckMinutes

\* POST /api/agent/reset-stuck: `query` is not among the names server.js imports
\* (server.js:5-25), so evaluating the call throws ReferenceError before any
\* statement reaches the store; the catch answers 500
ResetStuck ==
    /\ resp' = 500
    /\ UNCHANGED <<localAgentEnabled, now, jobs, flights, prices, jobQueue, run, tx, sched, rest>>

\* time passes
TickMinutes == 3
MaxClock == 6
Tick ==
    /\ now + TickMinutes <= MaxClock
    /\ now' = now + TickMinutes
    /\ UNCHANGED <<localAgentEnabled, jobs, flights, prices, jobQueue, run, tx, resp, sched, rest>>

\* ------------------------------------------------------------ scheduler
MaxTicks == 1         \* scheduler ticks in a run
IdleSched == [pc |-> "idle", list |-> <<>>, idx |-> 0, quote |-> 0, ticks |-> 0]

RECURSIVE createJobs(_, _)
\* createJob once per entry of specs, in order
createJobs(js, specs) ==
    IF specs = <<>> THEN js
    ELSE createJobs(createJob(js, Head(specs).type, Head(specs).flight_id,
                              Head(specs).progress_total, JSONstringify("object")),
                     Tail(specs))

RECURSIVE EmailJobs(_, _)
\* one send_email job per flight with a notify_email
EmailJobs(fs, list) ==
    IF list = <<>> THEN <<>>
    ELSE (IF fs[Head(list)].notify_email
          THEN <<[type |-> "send_email", flight_id |-> Head(list), progress_total |-> 1]>>
          ELSE <<>>) \o EmailJobs(fs, Tail(list))

\* cron fires checkAndSendPriceUpdates: delegated, it only enqueues a check_all and
\* the send_email jobs; otherwise it starts refreshing prices itself
checkAndSendPriceUpdates ==
    /\ sched.pc = "idle" /\ sched.ticks < MaxTicks
    /\ LET list == getActiveFlights(flights)
           specs == <<[type |-> "check_all", flight_id |-> NoJob,
                       progress_total |-> Len(list)]>> \o EmailJobs(flights, list)
       IN IF localAgentEnabled
          THEN /\ Len(jobs) + Len(specs) <= MaxJobs
               /\ jobs' = createJobs(jobs, specs)
               /\ run' = run \o [i \in 1..Len(specs) |-> IdleRun]
               /\ sched' = [sched EXCEPT !.ticks = @ + 1]
          ELSE /\ sched' = [sched EXCEPT !.ticks = @ + 1, !.list = list, !.idx = 1,
                                         !.pc = IF list = <<>> THEN "emails" ELSE "quote"]
               /\ UNCHANGED <<jobs, run>>
    /\ UNCHANGED <<localAgentEnabled, now, flights, prices, jobQueue, tx, resp, rest>>

SchedFlight == sched.list[sched.idx]

SchedQuote ==
    /\ sched.pc = "quote"
    /\ \/ \E p \in PriceValues : sched' = [sched EXCEPT !.pc = "save", !.quote = p]
       \/ sched' = [sched EXCEPT !.pc = "ferr"]
    /\ UNCHANGED <<localAgentEnabled, now, jobs, flights, prices, jobQueue, run, tx, resp, rest>>

SchedSavePrice ==
    /\ sched.pc = "save"
    /\ prices' = savePrice(prices, SchedFlight, sched.quote, "engine", NoJob)
    /\ sched' = [sched EXCEPT !.pc = "fok"]
    /\ UNCHANGED <<localAgentEnabled, now, jobs, flights, jobQueue, run, tx, resp, rest>>

SchedNext == IF sched.idx < Len(sched.list) THEN "quote" ELSE "emails"

SchedFlightOk ==
    /\ sched.pc = "fok"
    /\ flights' = updateFlightCheckStatus(flights, SchedFlight, "ok", NoText)
    /\ sched' = [sched EXCEPT !.pc = SchedNext, !.idx = @ + 1]
    /\ UNCHANGED <<localAgentEnabled, now, jobs, prices, jobQueue, run, tx, resp, rest>>

\* the failure leaves the loop: the pass is over and nothing is recorded
SchedFlightThrow ==
    /\ sched.pc = "ferr"
    /\ sched' = [sched EXCEPT !.pc = "idle", !.list = <<>>, !.idx = 0, !.quote = 0]
    /\ UNCHANGED <<localAgentEnabled, now, jobs, flights, prices, jobQueue, run, tx, resp, rest>>

SchedFlightError ==
    /\ sched.pc = "ferr"
    /\ flights' = updateFlightCheckStatus(flights, SchedFlight, "error", QuoteError)
    /\ sched' = [sched EXCEPT !.pc = SchedNext, !.idx = @ + 1]
    /\ UNCHANGED <<localAgentEnabled, now, jobs, prices, jobQueue, run, tx, resp, rest>>

\* the refresh loop is over: the e-mails go out and the call returns
SchedEmails ==
    /\ sched.pc = "emails"
    /\ sched' = [sched EXCEPT !.pc = "idle", !.list = <<>>, !.idx = 0, !.quote = 0]
    /\ UNCHANGED <<localAgentEnabled, now, jobs, flights, prices, jobQueue, run, tx, resp, rest>>

\* ------------------------------------------------------------ specifications
JobIds == 1..MaxJobs

NewFlight(active) ==
    [is_active |-> active, notify_email |-> TRUE, last_check_status |-> NoText,
     last_check_error |-> NoText, last_checked_at |-> NullTime,
     departure_date |-> DepartDay, return_date |-> NullDate,
     cabin_class |-> "economy", passengers |-> 1]

InitRest ==
    /\ flex = {}
    /\ contexts = <<>>
    /\ tz = UTC
    /\ arg = NoArg
    /\ out = NoArg

InitStore ==
    /\ now = 0
    /\ jobs = <<>>
    /\ prices = <<>>
    /\ jobQueue = <<>>
    /\ run = <<>>
    /\ tx = [c \in Callers |-> IdleTx]
    /\ resp = 0
    /\ sched = IdleSched
    /\ InitRest

\* the requests the dashboard makes (server.js:231-258)
ApiCheck == \E f \in FlightIds : createAndRunJob("check_now", f, 1, DefaultWindow)
ApiCheckAll == createAndRunJob("check_all", NoJob, 0, DefaultWindow)

LocalStep ==
    \E j \in JobIds :
        \/ runCheckNowJob(j)
        \/ runCheckForFlight(j)
        \/ runCheckAllJob(j)
        \/ CheckAllBody(j)

\* ---- local mode: the dashboard and the in-process chain, any set of active flights
InitLocal ==
    /\ localAgentEnabled = FALSE
    /\ flights \in {[f \in FlightIds |-> NewFlight(f \in A)] : A \in SUBSET FlightIds}
    /\ InitStore
NextLocal == ApiCheck \/ ApiCheckAll \/ LocalStep
SpecLocal == InitLocal /\ [][NextLocal]_vars

\* ---- local mode with a store whose flight listing may fail
StoreFault == \E j \in JobIds : CheckAllEnumerateThrows(j)
NextFault == ApiCheck \/ ApiCheckAll \/ LocalStep \/ StoreFault
SpecFault == InitLocal /\ [][NextFault]_vars

\* ---- local mode, date-window scans, in a UTC zone and in zones that change
\* their offset near the departure date
MaxWindow == 2        \* largest window requested
TripDays == 2         \* length of the round trip
Windows == 1..MaxWindow
\* clocks go forward one hour at 01:00 UTC of the day after departure (Central Europe)
East == [before |-> 1, change |-> (DepartDay + 1) * HoursPerDay + 1, shift |-> 1]
\* clocks go back one hour at 09:00 UTC of the day before departure (US Pacific)
West == [before |-> 0 - 7, change |-> (DepartDay - 1) * HoursPerDay + 9, shift |-> 0 - 1]
TimeZones == {UTC, East, West}

\* POST /api/flights/:id/flex-scan?window=w
ApiFlexScan == \E f \in FlightIds, w \in Windows : createAndRunJob("flex_scan", f, w * 2 + 1, w)
FlexStep == \E j \in JobIds : runFlexScanJob(j) \/ FlexScanBody(j)

\* flight 1 is a round trip, the others are one-way
InitFlex ==
    /\ localAgentEnabled = FALSE
    /\ flights = [f \in FlightIds |->
                    [NewFlight(TRUE) EXCEPT !.return_date =
                        IF f = 1 THEN DepartDay + TripDays ELSE NullDate]]
    /\ now = 0
    /\ jobs = <<>>
    /\ prices = <<>>
    /\ jobQueue = <<>>
    /\ run = <<>>
    /\ tx = [c \in Callers |-> IdleTx]
    /\ resp = 0
    /\ sched = IdleSched
    /\ flex = {}
    /\ contexts = <<>>
    /\ tz \in TimeZones
    /\ arg = NoArg
    /\ out = NoArg
NextFlex == ApiFlexScan \/ FlexStep
SpecFlex == InitFlex /\ [][NextFlex]_vars

\* ---- local mode, context refreshes
\* POST /api/flights/:id/context-refresh
ApiContextRefresh == \E f \in FlightIds : createAndRunJob("context_refresh", f, 1, DefaultWindow)
ContextStep == \E j \in JobIds : runContextRefreshJob(j) \/ ContextRefreshBody(j)
NextContext == ApiContextRefresh \/ ContextStep
SpecContext == InitLocal /\ [][NextContext]_vars

\* ---- local mode, single-flight checks and context refreshes on one chain; the
\* event loop runs every continuation that is ready
CheckNowStep == \E j \in JobIds : runCheckNowJob(j) \/ runCheckForFlight(j)
NextChain == ApiCheck \/ ApiContextRefresh \/ CheckNowStep \/ ContextStep
SpecChain ==
    InitLocal /\ [][NextChain]_vars /\ WF_vars(CheckNowStep) /\ WF_vars(ContextStep)

\* ---- the price readers over any price history
MaxTable == 3         \* rows of the price history
\* a stored price may be 0: the completion endpoint saves result.price as reported
StoredPrices == 0..MaxPrice
PriceTables ==
    UNION {[1..n -> [flight_id : FlightIds, price : StoredPrices, source : {"agent"},
                     checked_at : {0}, by : {NoJob}]] : n \in 1..MaxTable}
InitPrices ==
    /\ localAgentEnabled = FALSE
    /\ flights = [f \in FlightIds |-> NewFlight(TRUE)]
    /\ \E t \in PriceTables : prices = [i \in DOMAIN t |-> [t[i] EXCEPT !.checked_at = i]]
    /\ now = MaxTable
    /\ jobs = <<>>
    /\ jobQueue = <<>>
    /\ run = <<>>
    /\ tx = [c \in Callers |-> IdleTx]
    /\ resp = 0
    /\ sched = IdleSched
    /\ InitRest
NextPrices ==
    \/ ReadLatestPrice
    \/ ReadLowestPrice
    \/ ReadFlightList
    \/ ReadNotify
    \/ ReadSchedulerEmail
SpecPrices == InitPrices /\ [][NextPrices]_vars

\* ------------------------------------------------------------ scrape source
MinPlausible == 50
DeltaMinPlausible == 100
MaxPlausible == 20000
NullAirline == "null"
MaxAmounts == 2       \* dollar amounts in the page text

\* a dollar amount as the page writes it: "$" lead [ "," group ]*, e.g. "$1,234"
\* is lead <<1>> groups <<234>>; near: a line of the Delta window starts with it
RECURSIVE DigitsValue(_)
DigitsValue(ds) ==
    IF ds = <<>> THEN 0 ELSE DigitsValue(SubSeq(ds, 1, Len(ds) - 1)) * 10 + ds[Len(ds)]
RECURSIVE GroupsValue(_, _)
GroupsValue(v, gs) == IF gs = <<>> THEN v ELSE GroupsValue(v * 1000 + Head(gs), Tail(gs))
\* the amount the text states
Written(a) == GroupsValue(DigitsValue(a.lead), a.groups)

\* /\$(\d{1,3}(?:,\d{3})*)/: at most three leading digits, then the ",ddd" groups
\* that follow them directly
RegexMatch(a) ==
    [lead |-> SubSeq(a.lead, 1, IF Len(a.lead) < 3 THEN Len(a.lead) ELSE 3),
     groups |-> IF Len(a.lead) <= 3 THEN a.groups ELSE <<>>]
\* parseInt(match[1].replace(',', '')): replace removes the first comma only and
\* parseInt stops at the next one
ParseAmount(a) ==
    LET m == RegexMatch(a)
    IN GroupsValue(DigitsValue(m.lead), SubSeq(m.groups, 1, IF m.groups = <<>> THEN 0 ELSE 1))

MinOf(S) == CHOOSE x \in S : \A y \in S : x <= y
\* page.evaluate: deltaPrice and cheapestPrice (0: null)
deltaPrice(page) ==
    LET ps == {ParseAmount(page.amounts[i]) : i \in {k \in DOMAIN page.amounts : page.amounts[k].near}}
        ok == {p \in ps : p >= DeltaMinPlausible /\ p <= MaxPlausible}
    IN IF ok = {} THEN 0 ELSE MinOf(ok)
cheapestPrice(page) ==
    LET ps == {ParseAmount(page.amounts[i]) : i \in DOMAIN page.amounts}
        ok == {p \in ps : p >= MinPlausible /\ p <= MaxPlausible}
    IN IF ok = {} THEN 0 ELSE MinOf(ok)

\* what a call gives back: a value, or a throw
\* launched: the call launched a browser; closed: close() calls it made on the browser
Thrown == [threw |-> TRUE, success |-> FALSE, price |-> 0, airline |-> NullAirline,
           source |-> "none", raw_data |-> 0, launched |-> FALSE, closed |-> 0]
Failure == [Thrown EXCEPT !.threw = FALSE]

\* the step of a scrape that throws
Faults == {"none", "launchBrowser", "newPage", "goto", "evaluate", "pageClose", "browserClose"}

scrapeFlight(page, prefersDelta, fault) ==
    IF fault = "newPage" THEN Thrown
    ELSE IF fault \in {"goto", "evaluate", "pageClose"} THEN Failure
    ELSE LET useDelta == prefersDelta /\ deltaPrice(page) # 0
             finalPrice == IF useDelta THEN deltaPrice(page) ELSE cheapestPrice(page)
             finalAirline == IF useDelta THEN "Delta" ELSE page.airline
         IN IF finalPrice # 0
            THEN [Failure EXCEPT !.success = TRUE, !.price = finalPrice, !.airline = finalAirline]
            ELSE Failure

\* finally { if (ownBrowser) { await activeBrowser.close(); } }
ClosesAnyBrowser(ownBrowser) == TRUE
ClosesBrowser(ownBrowser) == ownBrowser

getGoogleFlightQuote(page, prefersDelta, fault, ownBrowser) ==
    IF ownBrowser /\ fault = "launchBrowser" THEN Thrown
    ELSE LET result == scrapeFlight(page, prefersDelta, fault)
             closes == ClosesBrowser(ownBrowser)
             settled == IF closes /\ fault = "browserClose" THEN Thrown
                        ELSE IF result.threw \/ ~result.success THEN Thrown
                        ELSE [result EXCEPT !.source = "google_flights"]
         IN [settled EXCEPT !.launched = ownBrowser, !.closed = IF closes THEN 1 ELSE 0]

\* ------------------------------------------------------------ pricing engine
MaxOffers == 3        \* offers in an API response
MaxOfferPrice == 2    \* grandTotal of an offer

\* parseFloat(offer?.price?.grandTotal): a missing or non-numeric total is NaN
parseFloat(t) == IF t < 0 THEN NotANumber ELSE t
isFinite(v) == v # NotANumber

NoQuote == [Failure EXCEPT !.source = "null"]

\* if (!best || priceValue < best.price)
ReplacesOrTies(best, priceValue) == best = NoQuote \/ priceValue <= best.price
Replaces(best, priceValue) == best = NoQuote \/ priceValue < best.price

RECURSIVE BestOffer(_, _, _)
\* for (const offer of offers) ...; raw_data is the offer, named by its position
BestOffer(offers, i, best) ==
    IF i > Len(offers) THEN best
    ELSE LET priceValue == parseFloat(offers[i])
         IN IF isFinite(priceValue) /\ Replaces(best, priceValue)
            THEN BestOffer(offers, i + 1,
                           [Failure EXCEPT !.success = TRUE, !.price = priceValue,
                                           !.source = "amadeus", !.raw_data = i])
            ELSE BestOffer(offers, i + 1, best)

\* api: "none" (no credentials: getAmadeusClient() is null), "ok", or "throws"
getAmadeusQuote(api, offers) ==
    IF api = "none" THEN NoQuote
    ELSE IF api = "throws" THEN Thrown
    ELSE IF offers = <<>> THEN NoQuote
    ELSE BestOffer(offers, 1, NoQuote)

\* if (amadeusQuote) return amadeusQuote; return getGoogleFlightQuote(flight, browser)
NoFallback(amadeusQuote, scraped) == amadeusQuote
Fallback(amadeusQuote, scraped) == IF amadeusQuote # NoQuote THEN amadeusQuote ELSE scraped

getPriceQuote(api, offers, page, prefersDelta, fault, ownBrowser) ==
    LET amadeusQuote == getAmadeusQuote(api, offers)
    IN IF amadeusQuote.threw THEN Thrown
       ELSE Fallback(amadeusQuote, getGoogleFlightQuote(page, prefersDelta, fault, ownBrowser))

\* ---- one call of the quote engine or of the scrape source, on any input
Leads == {<<4>>, <<1>>, <<2, 5, 0>>, <<2, 5, 0, 0, 0>>}
GroupLists == {<<>>, <<234>>, <<234, 567>>}
Amounts ==
    {[lead |-> l, groups |-> g, near |-> n] :
        l \in Leads, g \in GroupLists, n \in BOOLEAN} \ 
    {a \in [lead : Leads, groups : GroupLists, near : BOOLEAN] :
        Len(a.lead) > 3 /\ a.groups # <<>>}
\* the first listed airline name in the text; a Delta line puts "Delta" in the text,
\* and only "JetBlue" is listed before it
Pages ==
    {[amounts |-> s, airline |-> n] :
        s \in SeqsUpTo(Amounts, MaxAmounts), n \in {NullAirline, "JetBlue", "Delta"}} \ 
    {p \in [amounts : SeqsUpTo(Amounts, MaxAmounts), airline : {NullAirline}] :
        \E i \in DOMAIN p.amounts : p.amounts[i].near}
EmptyPage == [amounts |-> <<>>, airline |-> NullAirline]
PlainPage == [amounts |-> <<[lead |-> <<2, 5, 0>>, groups |-> <<>>, near |-> FALSE]>>,
              airline |-> "JetBlue"]
OfferTotals == (0 - 1)..MaxOfferPrice
OfferLists == SeqsUpTo(OfferTotals, MaxOffers)

Call(who, api, offers, page, prefersDelta, fault, ownBrowser, result) ==
    /\ arg' = [who |-> who, api |-> api, offers |-> offers, page |-> page,
               prefersDelta |-> prefersDelta, fault |-> fault, ownBrowser |-> ownBrowser]
    /\ out' = result
    /\ UNCHANGED <<localAgentEnabled, now, jobs, flights, prices, jobQueue, run, tx, resp, sched,
                   flex, contexts, tz>>

CallGetPriceQuote ==
    /\ arg = NoArg
    /\ \E api \in {"none", "ok", "throws"}, offers \in OfferLists, page \in {EmptyPage, PlainPage},
          fault \in {"none", "goto"}, ownBrowser \in BOOLEAN :
           Call("getPriceQuote", api, offers, page, FALSE, fault, ownBrowser,
                getPriceQuote(api, offers, page, FALSE, fault, ownBrowser))

CallGetGoogleFlightQuote ==
    /\ arg = NoArg
    /\ \E page \in Pages, prefersDelta \in BOOLEAN, fault \in Faults, ownBrowser \in BOOLEAN :
           Call("getGoogleFlightQuote", "none", <<>>, page, prefersDelta, fault, ownBrowser,
                getGoogleFlightQuote(page, prefersDelta, fault, ownBrowser))

InitQuote ==
    /\ localAgentEnabled = FALSE
    /\ flights = [f \in FlightIds |-> NewFlight(TRUE)]
    /\ InitStore
NextQuote == CallGetPriceQuote \/ CallGetGoogleFlightQuote
SpecQuote == InitQuote /\ [][NextQuote]_vars

\* ---- delegated mode: jobs stay queued for the polling agents
AgentClaim == \E c \in Callers : claimNextJob(c) \/ AgentIdle(c)
AgentCompleteError ==
    \E c \in Callers, id \in JobIds : CompleteBegin(c, id, FALSE, NoResult, NoText, 0 - 1)
AgentCompleteSuccess ==
    \E c \in Callers, id \in JobIds, b \in {NoResult} \cup QuoteResults :
        CompleteBegin(c, id, TRUE, b, NoText, 0 - 1)
AgentCompleteStep ==
    \E c \in Callers :
        \/ CompleteProgress(c)
        \/ CompleteError(c)
        \/ CompleteSavePrice(c)
        \/ CompleteFlightOk(c)
        \/ CompleteRowSave(c)
        \/ CompleteRowOk(c)
        \/ CompleteFlexUpsert(c)
        \/ CompleteContext(c)
        \/ CompleteAnswer500(c)
        \/ CompleteSuccess(c)

InitAgent ==
    /\ localAgentEnabled = TRUE
    /\ flights = [f \in FlightIds |-> NewFlight(TRUE)]
    /\ InitStore
NextAgent ==
    \/ ApiCheck
    \/ ApiCheckAll
    \/ AgentClaim
    \/ AgentCompleteError
    \/ AgentCompleteSuccess
    \/ AgentCompleteStep
    \/ ResetStuck
SpecAgent == InitAgent /\ [][NextAgent]_vars

\* ---- delegated mode over time: claims, the clock and the stuck-job sweep
NextReset == ApiCheck \/ AgentClaim \/ ResetStuck \/ Tick
SpecReset == InitAgent /\ [][NextReset]_vars

\* ---- one round of concurrent claims against a jobs table in any state
StoredJob(status) ==
    [type |-> "check_all", flight_id |-> NoJob, status |-> status,
     progress_current |-> 0, progress_total |-> 0, payload_json |-> NoJson,
     result |-> NoResult,
     error_text |-> IF status = "error" THEN AgentError ELSE NoText,
     started_at |-> IF status = "queued" THEN NullTime ELSE 0,
     finished_at |-> IF status \in {"success", "error"} THEN 0 ELSE NullTime]
Statuses == {"queued", "running", "success", "error"}
InitClaim ==
    /\ localAgentEnabled = TRUE
    /\ flights = [f \in FlightIds |-> NewFlight(TRUE)]
    /\ now = 1
    /\ \E n \in 1..MaxJobs : jobs \in [1..n -> {StoredJob(s) : s \in Statuses}]
    /\ run = [j \in DOMAIN jobs |-> IdleRun]
    /\ prices = <<>>
    /\ jobQueue = <<>>
    /\ tx = [c \in Callers |-> IdleTx]
    /\ resp = 0
    /\ sched = IdleSched
    /\ InitRest
NextClaim == \E c \in Callers : ClaimSelect(c) \/ ClaimUpdate(c) \/ ClaimCommit(c)
SpecClaim == InitClaim /\ [][NextClaim]_vars

\* ---- the server in local mode, its agent endpoints reachable as always
Init ==
    /\ localAgentEnabled = FALSE
    /\ flights = [f \in FlightIds |-> NewFlight(TRUE)]
    /\ InitStore
Agent == 1
Next ==
    \/ ApiCheck
    \/ ApiCheckAll
    \/ LocalStep
    \/ claimNextJob(Agent)
    \/ AgentIdle(Agent)
    \/ \E id \in JobIds, ok \in BOOLEAN : CompleteBegin(Agent, id, ok, NoResult, NoText, 0 - 1)
    \/ CompleteError(Agent)
    \/ CompleteSuccess(Agent)
    \/ ResetStuck
Spec == Init /\ [][Next]_vars

\* ---- local mode with the scheduler running
NextSched ==
    \/ ApiCheck
    \/ ApiCheckAll
    \/ LocalStep
    \/ checkAndSendPriceUpdates
    \/ SchedQuote
    \/ SchedSavePrice
    \/ SchedFlightOk
    \/ SchedFlightError
    \/ SchedEmails
SpecSched == Init /\ [][NextSched]_vars

\* ---- delegated mode: jobs of every type, one client of the agent endpoints that
\* may claim, and may report anything for any job id
AgentSaid == "agent failed"
BridgeRows == [flight_id : {0, 1, NumFlights + 1}, price : {NotANumber, 0, 1}]
BridgeFlexRows ==
    [departure_date : {NullDate, DepartDay}, return_date : {NullDate}, price : {NullPrice, 1}]
BridgeBodies ==
    {NoResult, NoPriceResult, [NoResult EXCEPT !.kind = "context"]}
    \cup {[NoResult EXCEPT !.kind = "quote", !.price = p] : p \in {NotANumber, 0, 1}}
    \cup {[NoResult EXCEPT !.kind = "batch", !.rows = r] : r \in SeqsUpTo(BridgeRows, MaxRows)}
    \cup {[NoResult EXCEPT !.kind = "flex", !.rows = r] : r \in SeqsUpTo(BridgeFlexRows, MaxRows)}

\* what a report of failure may carry as its result
BridgeErrorBodies ==
    {NoResult, [NoResult EXCEPT !.kind = "context"],
     [NoResult EXCEPT !.kind = "quote", !.price = 1],
     [NoResult EXCEPT !.kind = "batch", !.rows = <<[flight_id |-> 1, price |-> 1]>>],
     [NoResult EXCEPT !.kind = "flex", !.rows =
         <<[departure_date |-> DepartDay, return_date |-> NullDate, price |-> 1]>>]}

\* POST /api/agent/jobs/:id/complete { status, result, error_text, progress_current }
BridgeCompleteSuccess ==
    \E id \in JobIds, b \in BridgeBodies : CompleteBegin(Agent, id, TRUE, b, NoText, 0 - 1)
BridgeCompleteError ==
    \E id \in JobIds, b \in BridgeErrorBodies, e \in {NoText, AgentSaid} :
        CompleteBegin(Agent, id, FALSE, b, e, IF b = NoResult THEN 1 ELSE 0 - 1)

\* the dashboard's requests, for flight 1
BridgeJobs == 1       \* jobs created in a run
BridgeCreate ==
    /\ Len(jobs) < BridgeJobs
    /\ \E type \in HandledTypes :
           createAndRunJob(type, IF type = "check_all" THEN NoJob ELSE 1, 1, 1)

NextBridge ==
    \/ BridgeCreate
    \/ claimNextJob(Agent)
    \/ AgentIdle(Agent)
    \/ BridgeCompleteSuccess
    \/ BridgeCompleteError
    \/ CompleteProgress(Agent)
    \/ CompleteError(Agent)
    \/ CompleteSavePrice(Agent)
    \/ CompleteFlightOk(Agent)
    \/ CompleteRowSave(Agent)
    \/ CompleteRowOk(Agent)
    \/ CompleteFlexUpsert(Agent)
    \/ CompleteContext(Agent)
    \/ CompleteAnswer500(Agent)
    \/ CompleteSuccess(Agent)
SpecBridge == InitAgent /\ [][NextBridge]_vars

\* ------------------------------------------------------------ polling agent
\* GET /api/flights: every flights row, newest first (no is_active filter)
fetchFlights(fs) == [i \in 1..Len(fs) |-> Len(fs) + 1 - i]

\* processJob for a claimed job: the handler prices or fetches, then posts its
\* report; a throw in the handler is posted as an error report
handleCheckNow(c) ==
    \E j \in JobIds :
        /\ Holds(c, j) /\ jobs[j].type = "check_now"
        /\ \/ \E p \in PriceValues :
                CompleteBegin(c, j, TRUE, [NoResult EXCEPT !.kind = "quote", !.price = p],
                              NoText, 0 - 1)
           \/ CompleteBegin(c, j, FALSE, NoResult, QuoteError, 0 - 1)

\* one row per listed flight: { flight_id, price } or { flight_id, error }
handleCheckAll(c) ==
    \E j \in JobIds :
        /\ Holds(c, j) /\ jobs[j].type = "check_all"
        /\ \E quotes \in [1..Len(flights) -> {0} \cup PriceValues] :
              CompleteBegin(c, j, TRUE,
                  [NoResult EXCEPT !.kind = "batch",
                                   !.rows = [i \in 1..Len(flights) |->
                                               [flight_id |-> fetchFlights(flights)[i],
                                                price |-> quotes[i]]]],
                  NoText, 0 - 1)

\* one row per day offset -window..window: the quote, or price null
handleFlexScan(c) ==
    \E j \in JobIds :
        /\ Holds(c, j) /\ jobs[j].type = "flex_scan"
        /\ LET window == (jobs[j].progress_total - 1) \div 2
               total == 2 * window + 1
           IN \E quotes \in [1..total -> {NullPrice} \cup PriceValues] :
                 CompleteBegin(c, j, TRUE,
                     [NoResult EXCEPT !.kind = "flex",
                                      !.rows = [i \in 1..total |->
                                          [shiftedFlight(tz, flights[jobs[j].flight_id],
                                                         i - 1 - window)
                                           EXCEPT !.return_date = FlexReturnKey(@)]
                                          @@ [price |-> quotes[i]]]],
                     NoText, 0 - 1)

handleContextRefresh(c) ==
    \E j \in JobIds :
        /\ Holds(c, j) /\ jobs[j].type = "context_refresh"
        /\ \/ CompleteBegin(c, j, TRUE, [NoResult EXCEPT !.kind = "context"], NoText, 0 - 1)
           \/ CompleteBegin(c, j, FALSE, NoResult, QuoteError, 0 - 1)

\* no job was handed out (204): sleep, then poll again
AgentSleep(c) ==
    /\ tx[c].job = NoJob
    /\ AgentIdle(c)

\* ---- delegated mode with the polling agent as the only client of the agent
\* endpoints, over any set of active flights
RemoteWindow == 1     \* window of the date scans requested
InitRemote ==
    /\ localAgentEnabled = TRUE
    /\ flights \in {[f \in FlightIds |-> NewFlight(f \in A)] : A \in SUBSET FlightIds}
    /\ InitStore
RemoteFlexScan ==
    \E f \in FlightIds : createAndRunJob("flex_scan", f, RemoteWindow * 2 + 1, RemoteWindow)
NextRemote ==
    \/ ApiCheck
    \/ ApiCheckAll
    \/ RemoteFlexScan
    \/ ApiContextRefresh
    \/ claimNextJob(Agent)
    \/ AgentSleep(Agent)
    \/ handleCheckNow(Agent)
    \/ handleCheckAll(Agent)
    \/ handleFlexScan(Agent)
    \/ handleContextRefresh(Agent)
    \/ CompleteError(Agent)
    \/ CompleteSavePrice(Agent)
    \/ CompleteFlightOk(Agent)
    \/ CompleteRowSave(Agent)
    \/ CompleteRowOk(Agent)
    \/ CompleteFlexUpsert(Agent)
    \/ CompleteContext(Agent)
    \/ CompleteSuccess(Agent)
SpecRemote == InitRemote /\ [][NextRemote]_vars

\* ------------------------------------------------------------ claims
Min(a, b) == IF a <= b THEN a ELSE b
InClaim(c) == tx[c].pc \in {"selected", "updated", "returned"} /\ tx[c].job # NoJob
Received == {c \in Callers : tx[c].pc = "returned" /\ tx[c].job # NoJob}
StillQueued == {j \in DOMAIN jobs : jobs[j].status = "queued"}
\* the jobs that were queued when the round of claims began
QueuedAtStart == StillQueued \cup {tx[c].job : c \in Received}

\* C1: concurrent claimNextJob callers never share a job; every job handed out is
\* running with a start timestamp; and once all N callers have their answer,
\* min(N, number of jobs queued at the start) of them hold a job -- with one queued
\* job exactly one caller holds it and the other N-1 got none.
C1_ClaimExactlyOnce ==
    /\ \A c, d \in Callers : (c # d /\ InClaim(c) /\ InClaim(d)) => tx[c].job # tx[d].job
    /\ \A c \in Received :
           /\ jobs[tx[c].job].status = "running"
           /\ jobs[tx[c].job].started_at # NullTime
    /\ (\A c \in Callers : tx[c].pc = "returned") =>
           Cardinality(Received) = Min(NumCallers, Cardinality(QueuedAtStart))

\* a caller was answered "none" while another's transaction still holds the only
\* queued job, uncommitted
C1_Witness ==
    \E c, d \in Callers :
        /\ tx[c].pc = "updated" /\ jobs[tx[c].job].status = "queued"
        /\ StillQueued = {tx[c].job}
        /\ tx[d].pc = "returned" /\ tx[d].job = NoJob

\* a handler is between the start of its closure and its last store write
Executing(j) == j \in DOMAIN run /\ run[j].pc \notin {"none", "pending", "done"}
Finishes(j) == j \in DOMAIN run /\ run[j].pc \notin {"none", "done"} /\ run'[j].pc = "done"

\* C6: local job handlers are serialized -- at most one handler is executing at any
\* time, however many jobs have been handed to the chain.
C6_HandlersSerialized == Cardinality({j \in DOMAIN jobs : Executing(j)}) <= 1

\* a handler is executing while another job waits in the chain behind it
C6_Witness ==
    \E j, k \in DOMAIN jobs : Executing(j) /\ run[j].pc = "cn_save" /\ run[k].pc = "pending"

\* C9: when a local check_now handler for an existing flight finishes, it has called
\* the Quote Engine exactly once; after a quote it has appended exactly one
\* PriceRecord (that flight, that price), the flight status is ok and the job is
\* success with progress 1/1; after a failed quote it has appended none, the flight
\* status is error with the failure message and the job is error with that message.
C9_CheckNowOutcome ==
    [][\A j \in DOMAIN jobs :
        (Finishes(j) /\ jobs[j].type = "check_now" /\ run[j].flight # NoJob) =>
            LET f == jobs[j].flight_id
                job == jobs'[j]
            IN /\ run'[j].calls = 1
               /\ IF run[j].quote # 0
                  THEN /\ Cardinality(PricesBy(j)) = 1
                       /\ \A i \in PricesBy(j) :
                              prices[i].flight_id = f /\ prices[i].price = run[j].quote
                       /\ flights'[f].last_check_status = "ok"
                       /\ flights'[f].last_check_error = NoText
                       /\ job.status = "success"
                       /\ job.progress_current = 1 /\ job.progress_total = 1
                       /\ job.finished_at # NullTime
                  ELSE /\ PricesBy(j) = {}
                       /\ flights'[f].last_check_status = "error"
                       /\ flights'[f].last_check_error = QuoteError
                       /\ job.status = "error"
                       /\ job.error_text = QuoteError
                       /\ job.finished_at # NullTime]_vars

\* two check_now jobs have finished, one with a quote and one without
C9_Witness ==
    \E j, k \in DOMAIN jobs :
        /\ jobs[j].type = "check_now" /\ run[j].pc = "done" /\ jobs[j].status = "success"
        /\ Cardinality(PricesBy(j)) = 1
        /\ jobs[k].type = "check_now" /\ run[k].pc = "done" /\ jobs[k].status = "error"

ActiveFlights == {f \in FlightIds : flights[f].is_active}

\* C10: when a local check_all handler finishes, a PriceRecord was appended for
\* exactly the flights whose quote succeeded (one each), every flight whose quote
\* threw has status error, and the job is success with progress_current =
\* progress_total = number of active flights.
C10_CheckAllOutcome ==
    [][\A j \in DOMAIN jobs :
        (Finishes(j) /\ jobs[j].type = "check_all") =>
            LET job == jobs'[j]
                rows == PricesBy(j)
            IN /\ {prices[i].flight_id : i \in rows} = run[j].okFlights
               /\ Cardinality(rows) = Cardinality(run[j].okFlights)
               /\ run[j].okFlights \subseteq ActiveFlights
               /\ \A f \in ActiveFlights \ run[j].okFlights :
                      /\ flights'[f].last_check_status = "error"
                      /\ flights'[f].last_check_error = QuoteError
               /\ \A f \in run[j].okFlights : flights'[f].last_check_status = "ok"
               /\ job.status = "success"
               /\ job.progress_current = Cardinality(ActiveFlights)
               /\ job.progress_total = Cardinality(ActiveFlights)
               /\ run[j].calls = Cardinality(ActiveFlights)]_vars

\* a finished batch in which an earlier flight's quote threw and a later one's did not
C10_Witness ==
    \E j \in DOMAIN jobs :
        /\ jobs[j].type = "check_all" /\ run[j].pc = "done" /\ jobs[j].status = "success"
        /\ \E f, g \in ActiveFlights :
               /\ f < g
               /\ f \notin run[j].okFlights /\ g \in run[j].okFlights
               /\ \E i \in PricesBy(j) : prices[i].flight_id = g
        /\ jobs[j].progress_current = Cardinality(ActiveFlights)

\* C2: a job's stored status changes only by queued->running, running->success,
\* running->error, or running->queued, the last only in a stuck-job reset.
C2_StatusTransitions ==
    [][\A j \in DOMAIN jobs :
        \/ jobs'[j].status = jobs[j].status
        \/ <<jobs[j].status, jobs'[j].status>> \in
               {<<"queued", "running">>, <<"running", "success">>, <<"running", "error">>}
        \/ /\ <<jobs[j].status, jobs'[j].status>> = <<"running", "queued">>
           /\ ResetStuck]_vars

\* C3: once a job is success or error, its status, result and error text never
\* change again.
C3_TerminalIsFinal ==
    [][\A j \in DOMAIN jobs :
        jobs[j].status \in {"success", "error"} =>
            /\ jobs'[j].status = jobs[j].status
            /\ jobs'[j].result = jobs[j].result
            /\ jobs'[j].error_text = jobs[j].error_text]_vars

InChain(j) == \E i \in DOMAIN jobQueue : jobQueue[i] = j

\* C4: a job handed to the in-process chain is never also handed to a polling
\* worker by the claim endpoint, and a job a worker holds is not executed by the
\* local runner.
C4_OneExecutor ==
    \A j \in DOMAIN jobs, c \in Callers : ~(InChain(j) /\ Holds(c, j))

\* C5: a stuck-job reset returns every job running longer than the threshold to
\* queued with started_at cleared, and leaves every other job unchanged.
C5_ResetRequeuesStuck ==
    [][ResetStuck =>
        \A j \in DOMAIN jobs :
            IF Stuck(jobs, j)
            THEN jobs'[j].status = "queued" /\ jobs'[j].started_at = NullTime
            ELSE jobs'[j] = jobs[j]]_vars

\* a store write made by the local handler of job j
HandlerWrites(j) ==
    \/ CheckNowFlightRunning(j)
    \/ CheckNowSavePrice(j)
    \/ CheckNowFlightOk(j)
    \/ CheckNowFlightError(j)
    \/ CheckAllSavePrice(j)
    \/ CheckAllFlightOk(j)
    \/ CheckAllFlightError(j)

\* C8: every PriceRecord insert and flight-status write of a local handler happens
\* while its job's stored status is running.
C8_WritesWhileRunning ==
    [][\A j \in DOMAIN jobs : HandlerWrites(j) => jobs[j].status = "running"]_vars

\* a price check of flight f is in progress in the job chain / in the scheduler
LocalChecking(f) ==
    \E j \in DOMAIN jobs :
        \/ /\ jobs[j].type = "check_now" /\ run[j].flight = f
           /\ run[j].pc \in {"cn_fstatus", "cn_quote", "cn_save", "cn_fok", "cn_ferr"}
        \/ /\ jobs[j].type = "check_all"
           /\ run[j].pc \in {"ca_quote", "ca_save", "ca_fok", "ca_ferr"}
           /\ CheckAllFlight(j) = f
SchedChecking(f) == sched.pc \in {"quote", "save", "fok", "ferr"} /\ SchedFlight = f

\* C7: no two executions have a price check in progress for the same flight at the
\* same time.
C7_OneCheckPerFlight == \A f \in FlightIds : ~(LocalChecking(f) /\ SchedChecking(f))

\* C11: a finished check_all job is in error when enumerating the active flights
\* failed, and in success in every other case; it is never left queued or running.
C11_CheckAllFailsOnlyAtStart ==
    \A j \in DOMAIN jobs :
        (jobs[j].type = "check_all" /\ run[j].pc = "done") =>
            jobs[j].status = IF run[j].threw THEN "error" ELSE "success"

\* the flex_prices rows of flight f's current cabin and passenger count
FlexRowsOf(f) ==
    {x \in flex : /\ x.flight_id = f
                  /\ x.cabin_class = flights[f].cabin_class
                  /\ x.passengers = flights[f].passengers}

\* C12: when a flex_scan job with window W completes, exactly 2W+1 flex_prices rows
\* exist for its flight/cabin/passengers, each with a checked_at.  Stated for a
\* server in the UTC zone only, where every probe has its own date.
C12_FlexRowCount ==
    [][\A j \in JobIds :
        (tz = UTC /\ FlexSuccess(j)) =>
            /\ Cardinality(FlexRowsOf(run[j].flight)) = FlexTotal(j)
            /\ \A x \in FlexRowsOf(run[j].flight) : x.checked_at # NullTime]_vars

\* the handler of job j is at one of its 2W+1 probes
Probing(j) ==
    /\ j \in DOMAIN jobs /\ jobs[j].type = "flex_scan"
    /\ run[j].pc \in {"fx_quote", "fx_save", "fx_err"}

\* C13: in a local flex_scan a probe whose quote fails leaves an entry for its dates
\* with null price and source 'error', and the scan goes on: when the handler
\* finishes it has attempted all 2W+1 probes, one after the other, and the job is
\* success with progress 2W+1 of 2W+1.
C13_FlexProbeFailureIsolated ==
    [][\A j \in DOMAIN jobs :
        /\ (Probing(j) /\ run[j].pc = "fx_err" /\ run'[j].pc # "fx_err") =>
               /\ \E x \in flex' :
                      /\ x.flight_id = run[j].flight
                      /\ x.departure_date = FlexProbe(j).departure_date
                      /\ x.price = NullPrice /\ x.source = "error"
                      /\ x.checked_at # NullTime
               /\ run'[j].pc = "fx_progress"
        /\ (Probing(j) /\ run[j].pc = "fx_quote") =>
               run'[j].calls \in {run[j].current, run[j].current + 1}
        /\ (Finishes(j) /\ jobs[j].type = "flex_scan" /\ run[j].flight # NoJob) =>
               /\ run[j].calls = FlexTotal(j)
               /\ run[j].current = FlexTotal(j)
               /\ jobs'[j].status = "success"
               /\ jobs'[j].progress_current = FlexTotal(j)
               /\ jobs'[j].progress_total = FlexTotal(j)]_vars

\* a finished scan in which an earlier probe failed and a later one got a quote
C13_Witness ==
    \E j \in DOMAIN jobs :
        /\ jobs[j].type = "flex_scan" /\ run[j].pc = "done" /\ jobs[j].status = "success"
        /\ \E x, y \in flex :
               /\ x.by = j /\ y.by = j /\ x.delta < y.delta
               /\ x.source = "error" /\ x.price = NullPrice
               /\ y.price # NullPrice

\* C14: at day offset d a flex_scan probes departure date + d days, with the return
\* date (when there is one) the original trip length after the probed departure,
\* and with no return date for a one-way flight.
C14_ShiftedDates ==
    \A j \in DOMAIN jobs :
        Probing(j) =>
            LET flight == flights[run[j].flight]
                probe == FlexProbe(j)
            IN /\ probe.departure_date = flight.departure_date + FlexDelta(j)
               /\ probe.return_date =
                      IF flight.return_date = NullDate THEN NullDate
                      ELSE probe.departure_date
                           + (flight.return_date - flight.departure_date)

\* the rows of fx stored under the key of the probe handler j is at
RowsAtProbe(fx, j) ==
    {x \in fx : /\ x.flight_id = run[j].flight
                /\ x.departure_date = FlexProbe(j).departure_date
                /\ FlexReturnKey(x.return_date) = FlexReturnKey(FlexProbe(j).return_date)
                /\ x.cabin_class = flights[run[j].flight].cabin_class
                /\ x.passengers = flights[run[j].flight].passengers}

\* C15: after an upsert, first or repeated, exactly one flex_prices row has the
\* written key -- also when the key has no return date -- and it carries the price,
\* airline and source of that write.
C15_UpsertKeepsOneRow ==
    [][\A j \in DOMAIN jobs :
        (Probing(j) /\ run[j].pc \in {"fx_save", "fx_err"} /\ run'[j].pc = "fx_progress") =>
            /\ Cardinality(RowsAtProbe(flex', j)) = 1
            /\ \A x \in RowsAtProbe(flex', j) :
                   /\ x.price = run[j].quote
                   /\ x.source = (IF run[j].pc = "fx_save" THEN "engine" ELSE "error")
                   /\ x.airline = (IF run[j].pc = "fx_save" THEN "XX" ELSE NoText)
                   /\ x.by = j]_vars

\* a second scan has overwritten, with a failed probe, the row a first scan stored
\* with a price under a key that has no return date
C15_Witness ==
    \E x \in flex :
        /\ x.by = 2 /\ x.return_date = EmptyDate /\ x.price = NullPrice
        /\ run[1].pc = "done" /\ jobs[1].status = "success"
        /\ jobs[1].flight_id = x.flight_id
        /\ x.delta >= 0 - run[1].window /\ x.delta <= run[1].window
        /\ tz = UTC
        /\ \A y \in flex : y.by = 1 => y.price # NullPrice

MaxAge == 2           \* largest max-age of a cache lookup, in clock units
ContextsOf(f) == {i \in DOMAIN contexts : contexts[i].flight_id = f}

\* C16: every successful context_refresh adds one contexts row and changes no other,
\* so two refreshes of one flight leave two rows; and a lookup whose max-age admits
\* the row of the latest refresh answers with that row.
C16_ContextLookupNewest ==
    /\ [][\A j \in DOMAIN jobs :
            (IsLocal(j, "context_refresh") /\ run[j].pc = "cx_save" /\ run'[j].pc # "cx_save") =>
                /\ Len(contexts') = Len(contexts) + 1
                /\ \A i \in DOMAIN contexts : contexts'[i] = contexts[i]
                /\ contexts'[Len(contexts')].flight_id = run[j].flight]_vars
    /\ [](\A f \in FlightIds, a \in 0..MaxAge :
            LET last == CHOOSE i \in ContextsOf(f) : \A k \in ContextsOf(f) : i >= k
            IN (ContextsOf(f) # {} /\ contexts[last].fetched_at >= now - a) =>
                   getContext(contexts, f, a) = {last})

\* two refreshes of one flight have succeeded one after the other; both rows exist
\* and a lookup with max-age 0 admits only the newer
C16_Witness ==
    \E f \in FlightIds :
        /\ Cardinality(ContextsOf(f)) = 2
        /\ \A j \in DOMAIN jobs : run[j].pc = "done" /\ jobs[j].status = "success"
        /\ getContext(contexts, f, 0) # {}
        /\ \E i \in ContextsOf(f) : contexts[i].fetched_at < now

\* C17: for a flight with at least two price rows, every reader's current price is
\* the price of the row with the greatest checked_at, and every reader's lowest
\* price is the minimum price over the flight's rows.
C17_CurrentAndLowestPrice ==
    (out # NoArg /\ Cardinality(RowsOfFlight(prices, out.flight)) >= 2) =>
        LET rows == RowsOfFlight(prices, out.flight)
            newest == CHOOSE i \in rows : \A k \in rows : prices[i].checked_at >= prices[k].checked_at
        IN /\ out.current # NoRead => out.current = prices[newest].price
           /\ out.lowest # NoRead =>
                  /\ \E i \in rows : prices[i].price = out.lowest
                  /\ \A i \in rows : out.lowest <= prices[i].price

\* over histories of positive prices every reader agrees with the history
C17_PositivePricesOnly ==
    (\A i \in DOMAIN prices : prices[i].price > 0) => C17_CurrentAndLowestPrice

\* an offer with a numeric total price
Usable(offers) == {i \in DOMAIN offers : offers[i] >= 0}
PriceQuoteCall == arg # NoArg /\ arg.who = "getPriceQuote"

\* C18: getPriceQuote returns the pricing API's quote when the API yields at least
\* one usable offer; without API credentials, or when the API returns no usable
\* offer, it returns exactly what the scrape source gives (a quote tagged
\* google_flights, or its throw).
C18_ApiFirstThenScraper ==
    PriceQuoteCall =>
        /\ (arg.api = "ok" /\ Usable(arg.offers) # {}) =>
               /\ ~out.threw /\ out.source = "amadeus"
               /\ out.raw_data \in Usable(arg.offers)
               /\ out.price = arg.offers[out.raw_data]
        /\ (arg.api = "none" \/ (arg.api = "ok" /\ Usable(arg.offers) = {})) =>
               /\ out = getGoogleFlightQuote(arg.page, arg.prefersDelta, arg.fault, arg.ownBrowser)
               /\ ~out.threw => out.source = "google_flights"

\* the API answered offers, none with a numeric price, and the scraper's quote came back
C18_Witness ==
    /\ PriceQuoteCall /\ arg.api = "ok"
    /\ arg.offers # <<>> /\ Usable(arg.offers) = {}
    /\ ~out.threw /\ out.source = "google_flights" /\ out.price = 250

\* C19: of a non-empty list of API offers, the quote is the offer with the least
\* total price among the offers with a numeric price, and the first such offer in
\* the returned order when several tie at that price.
C19_MinimumOfferFirstOnTies ==
    (PriceQuoteCall /\ arg.api = "ok" /\ Usable(arg.offers) # {}) =>
        /\ out.raw_data \in Usable(arg.offers)
        /\ \A i \in Usable(arg.offers) :
               /\ arg.offers[out.raw_data] <= arg.offers[i]
               /\ arg.offers[i] = arg.offers[out.raw_data] => out.raw_data <= i

\* two offers tied at the minimum follow an offer without a numeric price, and
\* the earlier of the two is the quote
C19_Witness ==
    /\ PriceQuoteCall /\ arg.api = "ok" /\ Len(arg.offers) = 3
    /\ arg.offers[1] < 0 /\ arg.offers[2] = arg.offers[3] /\ arg.offers[2] >= 0
    /\ out.raw_data = 2

ScrapeCall == arg # NoArg /\ arg.who = "getGoogleFlightQuote"
Plausible(p) == p >= MinPlausible /\ p <= MaxPlausible
\* a step of the scrape that runs threw
Faulted ==
    /\ arg.fault # "none"
    /\ arg.fault \in {"launchBrowser", "browserClose"} => arg.ownBrowser

\* C20: getGoogleFlightQuote returns only quotes with a price in the plausible
\* range, and throws when no dollar amount on the page is in that range or when a
\* step of the scrape throws.
C20_ScraperThrowsWithoutPlausiblePrice ==
    ScrapeCall =>
        /\ ~out.threw => Plausible(out.price)
        /\ Faulted => out.threw
        /\ (\A i \in DOMAIN arg.page.amounts : ~Plausible(Written(arg.page.amounts[i]))) =>
               out.threw

\* with the page's amounts taken as the scraper parses them, the scraper returns
\* only plausible prices and throws when it parsed none or a step threw
C20_AsParsed ==
    ScrapeCall =>
        /\ ~out.threw => Plausible(out.price)
        /\ Faulted => out.threw
        /\ (\A i \in DOMAIN arg.page.amounts : ~Plausible(ParseAmount(arg.page.amounts[i]))) =>
               out.threw

\* C21: getGoogleFlightQuote calls close() on the browser, once, exactly when it
\* launched the browser itself; a browser passed in by the caller is never closed,
\* whether the call returns a quote or throws at any step.
C21_ClosesOnlyOwnBrowser ==
    ScrapeCall =>
        /\ out.launched <=> (arg.ownBrowser /\ arg.fault # "launchBrowser")
        /\ out.closed = (IF out.launched THEN 1 ELSE 0)
        /\ ~arg.ownBrowser => out.closed = 0

\* a call that launched its browser failed while scraping and closed the browser;
\* the passed-in case is the same state with ownBrowser FALSE
C21_Witness ==
    /\ ScrapeCall /\ arg.ownBrowser /\ arg.fault = "goto"
    /\ out.threw /\ out.launched /\ out.closed = 1

\* ---- the completion endpoint
Req == tx[Agent]
\* a completion request is being served
Completing == Req.pc \in {"c_progress", "c_error", "c_save", "c_fok", "c_rowsave", "c_rowok",
                          "c_flex", "c_context", "c_500", "c_success"}
\* the step is one of the request being served
Served == tx'[Agent] # tx[Agent]
FlexBy(j) == {x \in flex : x.by = j}
ContextsBy(j) == {i \in DOMAIN contexts : contexts[i].context = j}
Claimed(j) == jobs[j].started_at # NullTime

\* C22: in delegated mode no handler is started for a created job, and a job no
\* worker has claimed is still queued and has caused no price, flex or context row.
C22_QueuedUntilClaimed ==
    localAgentEnabled =>
        /\ jobQueue = <<>>
        /\ \A j \in DOMAIN jobs :
               /\ run[j] = IdleRun
               /\ ~Claimed(j) =>
                      /\ jobs[j].status = "queued"
                      /\ PricesBy(j) = {} /\ FlexBy(j) = {} /\ ContextsBy(j) = {}

\* in delegated mode createAndRunJob starts no handler and calls no quote engine
C22_NoHandlerStarted ==
    localAgentEnabled =>
        /\ jobQueue = <<>>
        /\ \A j \in DOMAIN jobs : run[j] = IdleRun
        /\ \A i \in DOMAIN prices : prices[i].source # "engine"

\* C23: a completion request reporting error never reaches a side-effect step: it
\* writes no price, flex or context row and no flight status, whatever the job's
\* type and the result attached, and it sets the job to error with the reported
\* text, or the default text when none was reported.
C23_ErrorReportHasNoSideEffect ==
    /\ [][(Completing /\ ~Req.ok /\ Served) =>
            /\ UNCHANGED <<prices, flex, contexts, flights>>
            /\ Req.pc \in {"c_progress", "c_error"}
            /\ Req.pc = "c_error" =>
                  /\ jobs'[Req.job].status = "error"
                  /\ jobs'[Req.job].error_text =
                         (IF Req.errText = NoText THEN AgentError ELSE Req.errText)
                  /\ jobs'[Req.job].result = jobs[Req.job].result
                  /\ tx'[Agent].pc = "idle"]_vars
    /\ [](Completing /\ ~Req.ok => Req.pc \in {"c_progress", "c_error"})

\* an error report without a text, carrying a quote, was served for a check_now
\* job: the job is in error with the default text and nothing else was written
C23_Witness ==
    /\ jobs # <<>> /\ jobs[1].type = "check_now"
    /\ jobs[1].status = "error" /\ jobs[1].error_text = AgentError
    /\ Req = [IdleTx EXCEPT !.pc = "idle"]
    /\ prices = <<>> /\ flex = {} /\ contexts = <<>>
    /\ flights[1].last_check_status = NoText

\* the price a completion step is about to store (NotANumber: none it could store)
ReportedPrice ==
    IF Req.pc = "c_save"
    THEN (IF Req.body.kind = "quote" THEN Req.body.price ELSE NotANumber)
    ELSE IF Req.pc = "c_rowsave" THEN CompleteRow(Agent).price
    ELSE NotANumber

C25_SideEffectFailureRecorded ==
    [][(Req.pc = "c_500" /\ jobs[Req.job].status = "running" /\ Served) =>
          /\ jobs'[Req.job].status = "error"
          /\ jobs'[Req.job].error_text # NoText
          /\ prices' = prices]_vars

\* the price rows written before a failed side effect stay as they were
C25_CommittedRowsKept == [][(Req.pc = "c_500" /\ Served) => prices' = prices]_vars

\* C26: a job run by the polling agent and the completion endpoint ends as the
\* local runner would end it for the same quote outcomes: a check_now whose quote
\* failed leaves its flight in error with the message and the job in error; one
\* whose quote succeeded leaves one new price row, the flight ok and the job in
\* success; a check_all prices exactly the active flights, leaving a price row and
\* status ok for each quoted flight and status error for each failed one; a
\* flex_scan leaves a row for every probed date; a context_refresh leaves a
\* context row when the fetch succeeded.
C26_RemoteAsLocal ==
    [][LET j == Req.job
           f == jobs[j].flight_id
           type == jobs[j].type
           rows == Req.body.rows
       IN Served =>
          /\ (Req.pc = "c_error" /\ type = "check_now") =>
                 /\ jobs'[j].status = "error" /\ jobs'[j].error_text = QuoteError
                 /\ flights'[f].last_check_status = "error"
                 /\ flights'[f].last_check_error = QuoteError
          /\ (Req.pc = "c_success" /\ type = "check_now") =>
                 /\ jobs'[j].status = "success"
                 /\ flights'[f].last_check_status = "ok"
                 /\ prices' # <<>>
                 /\ prices'[Len(prices')].flight_id = f
                 /\ prices'[Len(prices')].price = Req.body.price
                 /\ prices'[Len(prices')].by = j
          /\ (Req.pc = "c_success" /\ type = "check_all") =>
                 /\ jobs'[j].status = "success"
                 /\ {rows[i].flight_id : i \in DOMAIN rows} =
                        {g \in DOMAIN flights : flights[g].is_active}
                 /\ \A i \in DOMAIN rows :
                        IF rows[i].price # 0
                        THEN /\ flights'[rows[i].flight_id].last_check_status = "ok"
                             /\ \E k \in DOMAIN prices' :
                                    /\ prices'[k].by = j
                                    /\ prices'[k].flight_id = rows[i].flight_id
                                    /\ prices'[k].price = rows[i].price
                        ELSE flights'[rows[i].flight_id].last_check_status = "error"
          /\ (Req.pc = "c_success" /\ type = "flex_scan") =>
                 /\ jobs'[j].status = "success"
                 /\ \A i \in DOMAIN rows :
                        \E x \in flex' :
                            /\ x.flight_id = f /\ x.by = j
                            /\ x.departure_date = rows[i].departure_date
                            /\ x.price = rows[i].price
          /\ (Req.pc = "c_success" /\ type = "context_refresh") =>
                 /\ jobs'[j].status = "success"
                 /\ contexts' # <<>>
                 /\ contexts'[Len(contexts')].flight_id = f
          /\ (Req.pc = "c_error" /\ type = "context_refresh") =>
                 /\ jobs'[j].status = "error" /\ jobs'[j].error_text = QuoteError
                 /\ contexts' = contexts]_vars

\* for every quote that succeeds and every context fetched, the remote path writes
\* the rows and the flight status the local runner writes
C26_AgreesWhenAllSucceed ==
    [][LET j == Req.job
           f == jobs[j].flight_id
           type == jobs[j].type
           rows == Req.body.rows
       IN Served =>
          /\ (Req.pc = "c_success" /\ type = "check_now") =>
                 /\ jobs'[j].status = "success"
                 /\ flights'[f].last_check_status = "ok"
                 /\ prices' # <<>>
                 /\ prices'[Len(prices')].flight_id = f
                 /\ prices'[Len(prices')].price = Req.body.price
          /\ (Req.pc = "c_success" /\ type = "check_all") =>
                 \A i \in DOMAIN rows :
                     rows[i].price # 0 =>
                         /\ flights'[rows[i].flight_id].last_check_status = "ok"
                         /\ \E k \in DOMAIN prices' :
                                /\ prices'[k].by = j
                                /\ prices'[k].flight_id = rows[i].flight_id
                                /\ prices'[k].price = rows[i].price
          /\ (Req.pc = "c_success" /\ type = "flex_scan") =>
                 \A i \in DOMAIN rows :
                     \E x \in flex' :
                         /\ x.flight_id = f /\ x.by = j
                         /\ x.departure_date = rows[i].departure_date
                         /\ x.price = rows[i].price
          /\ (Req.pc = "c_success" /\ type = "context_refresh") =>
                 /\ contexts' # <<>>
                 /\ contexts'[Len(contexts')].flight_id = f]_vars

\* ------------------------------------------------------------ cached JSON
\* GET /api/flights/:id/context: the newest fresh row, parsed; no row, a text that
\* does not parse and a falsy value all answer needsRefresh
FlightContextAnswer(cs, i) ==
    LET context == IF i = 0 THEN "null" ELSE ParseOrNull(cs[i].context_json)
    IN IF context = SyntaxError
       THEN [who |-> "context", status |-> 500, row |-> i, needsRefresh |-> FALSE,
             context |-> "null"]
       ELSE [who |-> "context", status |-> 200, row |-> i,
             needsRefresh |-> ~Truthy(context),
             context |-> IF Truthy(context) THEN context ELSE "null"]

GetFlightContext ==
    /\ \E f \in FlightIds :
          LET cached == getContext(contexts, f, MaxAge)
          IN IF cached = {}
             THEN out' = FlightContextAnswer(contexts, 0)
             ELSE \E i \in cached : out' = FlightContextAnswer(contexts, i)
    /\ UNCHANGED <<localAgentEnabled, now, jobs, flights, prices, jobQueue, run, tx, resp, sched,
                   flex, contexts, tz, arg>>

\* GET /api/agent/jobs after claimNextJob has returned: 204 without a job, else
\* the claimed row with its payload parsed
AgentJobsAnswer(js, j) ==
    LET payload == IF j = NoJob \/ js[j].payload_json = NoJson THEN "null"
                   ELSE ParseOrNull(js[j].payload_json)
    IN IF j = NoJob THEN [who |-> "agent", status |-> 204, job |-> NoJob, payload |-> "null"]
       ELSE IF payload = SyntaxError
       THEN [who |-> "agent", status |-> 500, job |-> j, payload |-> "null"]
       ELSE [who |-> "agent", status |-> 200, job |-> j, payload |-> payload]

GetAgentJobs(c) ==
    /\ tx[c].pc = "returned"
    /\ out' = AgentJobsAnswer(jobs, tx[c].job)
    /\ tx' = [tx EXCEPT ![c] = IdleTx]
    /\ UNCHANGED <<localAgentEnabled, now, jobs, flights, prices, jobQueue, run, resp, sched,
                   flex, contexts, tz, arg>>

\* ---- delegated mode over stored JSON of any shape: queued jobs of which one has
\* any text as payload, and a contexts table with no row or one row of any text
JsonTexts == SeqsUpTo(JsonTokens, MaxJson)
InitCache ==
    /\ localAgentEnabled = TRUE
    /\ flights = [f \in FlightIds |-> NewFlight(TRUE)]
    /\ now = 0
    /\ \E n \in 1..MaxJobs, k \in 1..MaxJobs, t \in JsonTexts :
          /\ k <= n
          /\ jobs = [j \in 1..n |->
                       [StoredJob("queued") EXCEPT
                           !.payload_json = IF j = k THEN t ELSE JSONstringify("object")]]
    /\ run = [j \in DOMAIN jobs |-> IdleRun]
    /\ prices = <<>>
    /\ jobQueue = <<>>
    /\ tx = [c \in Callers |-> IdleTx]
    /\ resp = 0
    /\ sched = IdleSched
    /\ flex = {}
    /\ contexts \in {<<>>} \cup
                    {<<[flight_id |-> f, context |-> NoJob, context_json |-> t,
                        fetched_at |-> 0, expires_at |-> ContextHours]>> :
                        f \in FlightIds, t \in JsonTexts}
    /\ tz = UTC
    /\ arg = NoArg
    /\ out = NoArg
NextCache == claimNextJob(Agent) \/ GetAgentJobs(Agent) \/ GetFlightContext
SpecCache == InitCache /\ [][NextCache]_vars

\* ------------------------------------------------------------ C29
Unparseable(text) == text # NoJson /\ JSONparse(text) = SyntaxError

\* C29: a cached context whose JSON does not parse makes the context read answer
\* 200 with needsRefresh, as if there were no row; a job whose payload JSON does
\* not parse is claimed (running) all the same and is returned with payload null.
C29_UnparseableJsonIsNoData ==
    /\ (out.who = "context" /\ out.row # 0) =>
           (Unparseable(contexts[out.row].context_json) =>
               /\ out.status = 200 /\ out.needsRefresh
               /\ out = [FlightContextAnswer(contexts, 0) EXCEPT !.row = out.row])
    /\ (out.who = "agent" /\ out.job # NoJob) =>
           (Unparseable(jobs[out.job].payload_json) =>
               /\ out.status = 200 /\ out.payload = "null"
               /\ jobs[out.job].status = "running")

\* both cases have happened: here the answer to a claim of a job with a broken payload
C29_Witness ==
    /\ out.who = "agent" /\ out.job # NoJob
    /\ Unparseable(jobs[out.job].payload_json)
    /\ contexts # <<>> /\ Unparseable(contexts[1].context_json)

\* the context read has met a cached row with broken JSON
C29_WitnessContext ==
    /\ out.who = "context" /\ out.row # 0
    /\ Unparseable(contexts[out.row].context_json)

\* ---- delegated mode, the job store called with any arguments while an agent
\* claims what is queued
MaxTotal == 2         \* largest progress total given to createJob
Totals == {NotANumber} \cup 0..MaxTotal
CallCreateJob ==
    \E type \in {"check_now", "send_email"}, f \in {NoJob} \cup FlightIds, total \in Totals :
        /\ Len(jobs) < MaxJobs
        /\ jobs' = createJob(jobs, type, f, total, JSONstringify("object"))
        /\ run' = Append(run, IdleRun)
        /\ arg' = [who |-> "createJob", type |-> type, flight_id |-> f,
                   progress_total |-> total]
        /\ UNCHANGED <<localAgentEnabled, now, flights, prices, jobQueue, tx, resp, sched,
                       flex, contexts, tz, out>>
NextJobs == CallCreateJob \/ claimNextJob(Agent) \/ AgentIdle(Agent)
SpecJobs == InitAgent /\ [][NextJobs]_vars

\* ------------------------------------------------------------ C30
\* C30: createJob adds exactly one row and changes no other: the new job has the
\* given type and flight, status queued, progress_current 0, progress_total the
\* given total (0 when none is given), and no result, error text, started_at or
\* finished_at.
C30_CreateJobYieldsQueuedJob ==
    [][Len(jobs') # Len(jobs) =>
          LET new == jobs'[Len(jobs')]
          IN /\ Len(jobs') = Len(jobs) + 1
             /\ \A i \in DOMAIN jobs : jobs'[i] = jobs[i]
             /\ new.type = arg'.type /\ new.flight_id = arg'.flight_id
             /\ new.status = "queued"
             /\ new.progress_current = 0
             /\ new.progress_total =
                    (IF arg'.progress_total = NotANumber THEN 0 ELSE arg'.progress_total)
             /\ new.result = NoResult /\ new.error_text = NoText
             /\ new.started_at = NullTime /\ new.finished_at = NullTime]_vars

\* a job with a positive total was created next to a job that is already claimed
C30_Witness ==
    /\ Len(jobs) = 2 /\ arg.who = "createJob"
    /\ jobs[1].status = "running"
    /\ jobs[2].status = "queued" /\ jobs[2].progress_total = MaxTotal
    /\ jobs[2].progress_current = 0

\* ------------------------------------------------------------ C27
\* the quote call of a single-flight check, or the context call of a context
\* refresh, has thrown inside job j
QuoteThrew(j) == j \in DOMAIN run /\ run[j].pc \in {"cn_ferr", "cn_error", "cx_error"}
EndedInError(j) ==
    /\ j \in DOMAIN run /\ run[j].pc = "done"
    /\ jobs[j].status = "error" /\ jobs[j].error_text = QuoteError
Chained(j) == \E i \in DOMAIN jobQueue : jobQueue[i] = j
Executed(j) == j \in DOMAIN run /\ run[j].pc = "done" /\ jobs[j].status \in {"success", "error"}

\* C27: in local mode a single-flight check whose quote call throws, and a context
\* refresh whose context call throws, ends (and stays) in error with the
\* failure text, and every job put on the chain, before or after a failed one,
\* is executed to a final status.
C27_FailureEndsJobNotRunner ==
    /\ \A j \in JobIds : QuoteThrew(j) ~> [](EndedInError(j))
    /\ \A j \in JobIds : Chained(j) ~> Executed(j)

\* a job has been executed to the end after the job chained before it failed
C27_Witness ==
    /\ Len(jobQueue) = 2
    /\ EndedInError(jobQueue[1])
    /\ Executed(jobQueue[2])

\* ------------------------------------------------------------ C28
\* C28: when the scheduler refreshes prices itself and the quote for one flight
\* fails, the failure is written to that flight (status error, the message) and
\* the loop goes on with the next flight of the pass; the pass reaches its
\* e-mail phase only after every flight of the list has been visited.
C28_SchedulerFailureStaysLocal ==
    /\ [][(sched.pc = "ferr" /\ sched' # sched) =>
            /\ flights'[SchedFlight].last_check_status = "error"
            /\ flights'[SchedFlight].last_check_error = QuoteError
            /\ sched'.list = sched.list
            /\ sched'.idx = sched.idx + 1
            /\ sched'.pc = IF sched.idx < Len(sched.list) THEN "quote" ELSE "emails"]_vars
    /\ [](sched.pc = "emails" => sched.idx = Len(sched.list) + 1)

\* the pass is at its second flight after the quote of the first one failed
C28_Witness ==
    /\ sched.pc = "quote" /\ sched.idx = 2
    /\ flights[sched.list[1]].last_check_status = "error"
    /\ flights[sched.list[1]].last_check_error = QuoteError

\* ---- the job store's partial update called with any field set on any jobs table
\* a value for each field a caller may name; "note" is no column of the table
FieldNames ==
    {"status", "progress_current", "progress_total", "payload_json", "result", "error_text",
     "started_at", "finished_at", "type", "flight_id", "note"}
FieldValue(k) ==
    CASE k = "status" -> "success"
      [] k = "progress_current" -> 1
      [] k = "progress_total" -> 2
      [] k = "payload_json" -> <<"null">>
      [] k = "result" -> [NoResult EXCEPT !.kind = "quote", !.price = 1]
      [] k = "error_text" -> QuoteError
      [] k = "started_at" -> 3
      [] k = "finished_at" -> 4
      [] k = "type" -> "send_email"
      [] k = "flight_id" -> 1
      [] OTHER -> 5
MaxFields == 2        \* most fields named in one call
FieldSets == {[k \in K |-> FieldValue(k)] :
                K \in {L \in SUBSET FieldNames : Cardinality(L) <= MaxFields}}
CallUpdateJob ==
    /\ arg = NoArg
    /\ \E jobId \in 0..MaxJobs, fields \in FieldSets :
          /\ jobs' = updateJob(jobs, jobId, fields)
          /\ arg' = [who |-> "updateJob", jobId |-> jobId, fields |-> fields]
          /\ out' = [who |-> "updateJob", before |-> jobs]
    /\ UNCHANGED <<localAgentEnabled, now, flights, prices, jobQueue, run, tx, resp, sched,
                   flex, contexts, tz>>
NextUpdate == CallUpdateJob
SpecUpdate == InitClaim /\ [][NextUpdate]_vars

\* ------------------------------------------------------------ C31
\* the fields the store is specified to update
SpecifiedFields ==
    {"status", "progress_current", "progress_total", "result", "error_text",
     "started_at", "finished_at"}
Updated == arg.who = "updateJob"

\* C31: updateJob changes only the fields named in the call that are among status,
\* progress counters, result, error and timestamps, and only in the addressed
\* job; a call naming none of them changes nothing; type, flight reference and
\* payload never change.
C31_UpdatesOnlySpecifiedFields ==
    Updated =>
        /\ DOMAIN jobs = DOMAIN out.before
        /\ \A j \in DOMAIN jobs :
              /\ j # arg.jobId => jobs[j] = out.before[j]
              /\ \A k \in DOMAIN jobs[j] :
                    jobs[j][k] # out.before[j][k] =>
                        /\ k \in SpecifiedFields \cap DOMAIN arg.fields
                        /\ jobs[j][k] = arg.fields[k]
        /\ (DOMAIN arg.fields \cap SpecifiedFields = {}) => jobs = out.before

\* the same with the payload counted among the updatable fields, as the store has it
C31_UpdatesOnlyAllowedFields ==
    Updated =>
        /\ DOMAIN jobs = DOMAIN out.before
        /\ \A j \in DOMAIN jobs :
              /\ j # arg.jobId => jobs[j] = out.before[j]
              /\ \A k \in DOMAIN jobs[j] :
                    IF k \in updateJobAllowed \cap DOMAIN arg.fields /\ j = arg.jobId
                    THEN jobs[j][k] = arg.fields[k]
                    ELSE jobs[j][k] = out.before[j][k]

\* ------------------------------------------------------------ C32
\* no claim transaction of another caller is open
Alone(c) == \A d \in Callers \ {c} : tx[d].pc \in {"idle", "returned"}
QueuedNow == {j \in DOMAIN jobs : jobs[j].status = "queued"}

\* C32: a claim that starts while no other claim is in progress selects the
\* queued job created first (none when nothing is queued), and every job it
\* passes over was not queued: queued jobs leave the queue in creation order.
C32_OldestQueuedFirst ==
    [][\A c \in Callers :
          (tx[c].pc = "idle" /\ tx'[c].pc # "idle" /\ Alone(c)) =>
              IF QueuedNow = {}
              THEN tx'[c].pc = "returned" /\ tx'[c].job = NoJob
              ELSE /\ tx'[c].pc = "selected"
                   /\ tx'[c].job \in QueuedNow
                   /\ \A j \in QueuedNow : tx'[c].job <= j]_vars

\* two jobs were queued; the first went to an earlier claim, the second to this one
C32_Witness ==
    \E c \in Callers :
        /\ Alone(c) /\ tx[c].pc = "returned" /\ tx[c].job = 2
        /\ jobs[1].status = "running" /\ jobs[2].status = "running"
        /\ jobs[1].started_at < jobs[2].started_at

\* ------------------------------------------------------------ C33
\* SELECT * FROM flex_prices WHERE flight_id = $1 AND checked_at >= NOW() - maxAge
\* AND cabin_class = $2 AND passengers = $3; isComplete: rows.length >= window * 2 + 1
getFlexPrices(fx, flight_id, window, maxAge, cabin_class, passengers) ==
    LET rows == {x \in fx : /\ x.flight_id = flight_id
                            /\ x.checked_at >= now - maxAge
                            /\ x.cabin_class = cabin_class
                            /\ x.passengers = passengers}
    IN [rows |-> rows, isComplete |-> Cardinality(rows) >= window * 2 + 1]

\* the lookup GET /api/flights/:id/flex?window=w makes
FlexLookup(fx, f, w) ==
    getFlexPrices(fx, f, w, MaxAge, flights[f].cabin_class, flights[f].passengers)

\* C33: right after a flex_scan with window W has completed, a lookup with the same
\* window reports complete, whether the probes failed or not.
C33_CompleteAfterScan ==
    [][\A j \in JobIds :
          FlexSuccess(j) => FlexLookup(flex', jobs[j].flight_id, run[j].window).isComplete]_vars

\* the same on a server in the UTC zone, where every probe has its own date
C33_CompleteAfterScanUtc ==
    [][\A j \in JobIds :
          (tz = UTC /\ FlexSuccess(j)) =>
              FlexLookup(flex', jobs[j].flight_id, run[j].window).isComplete]_vars

\* a scan that has made fewer than 2W+1 probes with nothing cached before it
\* leaves the lookup incomplete; rows of failed probes count like the others
C33_IncompleteWhileScanning ==
    \A j \in DOMAIN jobs :
        (/\ IsLocal(j, "flex_scan") /\ jobs[j].status = "running"
         /\ run[j].current < FlexTotal(j)
         /\ \A x \in FlexRowsOf(jobs[j].flight_id) : x.by = j
         /\ Pc(j) \in {"fx_quote", "fx_save", "fx_err"}) =>
            ~FlexLookup(flex, jobs[j].flight_id, run[j].window).isComplete

\* ------------------------------------------------------------ C34
\* C34: a check_now job adds at most one row to the price history, however often
\* it is claimed, reported complete or run.
C34_OnePricePerCheckNow ==
    \A j \in DOMAIN jobs : jobs[j].type = "check_now" => Cardinality(PricesBy(j)) <= 1

\* ---- local mode, every job-creating route of the dashboard; the event loop runs
\* every continuation that is ready
\* POST /api/flights/:id/analyze
ApiAnalyze == \E f \in FlightIds : createAndRunJob("full_analysis", f, 1, DefaultWindow)
NextApi ==
    \/ ApiCheck
    \/ ApiCheckAll
    \/ ApiFlexScan
    \/ ApiContextRefresh
    \/ ApiAnalyze
    \/ LocalStep
    \/ FlexStep
    \/ ContextStep
SpecApi ==
    /\ InitLocal /\ [][NextApi]_vars
    /\ WF_vars(LocalStep) /\ WF_vars(FlexStep) /\ WF_vars(ContextStep)

\* ------------------------------------------------------------ C35
Terminal(j) == j \in DOMAIN jobs /\ jobs[j].status \in {"success", "error"}

\* C35: in local mode every job created through createAndRunJob eventually
\* reaches success or error, whatever its type.
C35_EveryJobEnds ==
    \A j \in JobIds : (j \in DOMAIN jobs) ~> Terminal(j)

\* the same for the four types createAndRunJob has a handler for
C35_HandledJobsEnd ==
    \A j \in JobIds :
        (j \in DOMAIN jobs /\ jobs[j].type \in HandledTypes) ~> Terminal(j)

\* ------------------------------------------------------------ C36
\* C36: every job's progress_current lies between 0 and its progress_total, and
\* equals progress_total while the job's status is success.
C36_ProgressWithinTotal ==
    \A j \in DOMAIN jobs :
        /\ 0 <= jobs[j].progress_current
        /\ jobs[j].progress_current <= jobs[j].progress_total
        /\ jobs[j].status = "success" => jobs[j].progress_current = jobs[j].progress_total

\* ------------------------------------------------------------ C37
\* C37: a queued job has no started_at, a running job has one, and finished_at is
\* set exactly while the status is success or error.
C37_TimestampsAgreeWithStatus ==
    \A j \in DOMAIN jobs :
        /\ jobs[j].status = "queued" => jobs[j].started_at = NullTime
        /\ jobs[j].status = "running" => jobs[j].started_at # NullTime
        /\ jobs[j].finished_at # NullTime <=> jobs[j].status \in {"success", "error"}

\* ------------------------------------------------------------ C38
\* C38: at the moment a local check_now job for an existing flight becomes success
\* or error, the flight's last-check status is ok exactly when the job is success
\* and error exactly when it is error.
C38_FlightStatusFollowsJob ==
    [][\A j \in JobIds :
          (/\ IsLocal(j, "check_now")
           /\ Pc(j) \in {"cn_success", "cn_error"} /\ run'[j].pc = "done") =>
              LET f == run[j].flight
              IN /\ jobs'[j].status = "success" <=> flights'[f].last_check_status = "ok"
                 /\ jobs'[j].status = "error" <=> flights'[f].last_check_status = "error"]_vars

\* ---- delegated mode, one scheduler tick and any number of polling agents
\* handleSendEmail: the flight's prices are read and the e-mail is sent, then the
\* report is posted; a throw on the way is posted as an error report
handleSendEmail(c) ==
    \E j \in JobIds :
        /\ Holds(c, j) /\ jobs[j].type = "send_email"
        /\ \/ CompleteBegin(c, j, TRUE, NoResult, NoText, 0 - 1)
           \/ CompleteBegin(c, j, FALSE, NoResult, QuoteError, 0 - 1)
AgentsStep ==
    \E c \in Callers :
        \/ claimNextJob(c)
        \/ AgentSleep(c)
        \/ handleCheckAll(c)
        \/ handleSendEmail(c)
        \/ CompleteError(c)
        \/ CompleteRowSave(c)
        \/ CompleteRowOk(c)
        \/ CompleteSuccess(c)
NextMail == checkAndSendPriceUpdates \/ AgentsStep
SpecMail == InitRemote /\ [][NextMail]_vars

\* ------------------------------------------------------------ C39
CheckAllFinished == \A k \in DOMAIN jobs : jobs[k].type = "check_all" => Terminal(k)

\* C39: whenever an agent executes a send_email job of a scheduler tick, the
\* check_all job of that tick has finished, with any number of polling agents.
C39_EmailAfterCheckAll ==
    [][\A c \in Callers : handleSendEmail(c) => CheckAllFinished]_vars

\* the same while the executing agent is the only one holding or claiming a job
C39_EmailAfterCheckAllOneAgent ==
    [][\A c \in Callers :
          (handleSendEmail(c) /\ \A d \in Callers \ {c} : tx[d].pc = "idle") =>
              CheckAllFinished]_vars

\* ---- local mode over hours: context refreshes, the clock, and cache lookups
\* with the default max-age and with a longer one
DefaultMaxAge == 6    \* parseInt(req.query.maxAgeHours) || 6
LongMaxAge == 12      \* a max-age a caller supplies
HoursStep == 4        \* hours between two looks at the clock
MaxHours == 8         \* the clock stops after this hour
HoursPass ==
    /\ now < MaxHours
    /\ now' = now + HoursStep
    /\ UNCHANGED <<localAgentEnabled, jobs, flights, prices, jobQueue, run, tx, resp, sched, rest>>

\* getContext({ flight_id, maxAgeHours }): the row handed to the caller (0: none)
LookupContext ==
    /\ \E f \in FlightIds, maxAge \in {DefaultMaxAge, LongMaxAge} :
          LET cached == getContext(contexts, f, maxAge)
          IN \E i \in (IF cached = {} THEN {0} ELSE cached) :
                out' = [who |-> "getContext", flight_id |-> f, maxAge |-> maxAge,
                        row |-> i, at |-> now]
    /\ UNCHANGED <<localAgentEnabled, now, jobs, flights, prices, jobQueue, run, tx, resp, sched,
                   flex, contexts, tz, arg>>
NextExpiry == ApiContextRefresh \/ ContextStep \/ HoursPass \/ LookupContext
SpecExpiry == InitLocal /\ [][NextExpiry]_vars

\* ------------------------------------------------------------ C40
Found == out.who = "getContext" /\ out.row # 0

\* C40: a context lookup never hands out a snapshot whose expires_at is earlier
\* than the time of the lookup, whatever max-age is asked for.
C40_NeverExpiredSnapshot ==
    Found => contexts[out.row].expires_at >= out.at

\* the same for lookups with the default max-age of 6 hours
C40_DefaultAgeNeverExpired ==
    (Found /\ out.maxAge = DefaultMaxAge) => contexts[out.row].expires_at >= out.at

====
